---- MODULE Spec2Model ----
(***************************************************************************)
(* State-machine model of the JSON visualizer's graph component            *)
(* (src/src/Visualizer/JsonGraph.jsx, JsonGraphInner): the tree builder    *)
(* processGraph/traverse, the collapse toggle onNodeClick, the search      *)
(* handleSearch/navigateSearch/clearSearch and the data effect.            *)
(*                                                                         *)
(* Encoding.                                                               *)
(*  - A JavaScript string that the code inspects (labels, queries) is a    *)
(*    sequence of one-character strings, so substring search, case         *)
(*    folding and the glyph-stripping regular expression are computed.     *)
(*  - Node and edge ids are TLA+ strings built as the code builds them.    *)
(*  - A parsed JSON value is a record tagged by its field t.               *)
(*  - undefined and false are both FALSE for the boolean node fields       *)
(*    (hidden, isObject, hasChildren): the code only tests truthiness.     *)
(***************************************************************************)
EXTENDS Integers, Sequences, FiniteSets, TLC

(***************************************************************************)
(* Limits of the tree builder.                                             *)
(***************************************************************************)
MAX_NODES == 3000
MAX_DEPTH == 10
MAX_ARRAY_ITEMS == 50
MAX_OBJECT_PROPS == 50

Min(a, b) == IF a < b THEN a ELSE b

(***************************************************************************)
(* Parsed JSON values (what JSON.parse returns).  An object is the         *)
(* sequence of its [k, v] pairs in Object.entries order.                   *)
(***************************************************************************)
Num(n) == [t |-> "num", n |-> n]
Str(s) == [t |-> "str", s |-> s]
Bool(b) == [t |-> "bool", b |-> b]
Null == [t |-> "null"]
Arr(items) == [t |-> "arr", items |-> items]
Obj(entries) == [t |-> "obj", entries |-> entries]
KV(k, v) == [k |-> k, v |-> v]
Rep(n, v) == [i \in 1..n |-> v]

(***************************************************************************)
(* Strings as character sequences.                                         *)
(***************************************************************************)
Digits == <<"0", "1", "2", "3", "4", "5", "6", "7", "8", "9">>

RECURSIVE IntToStr(_)
\* String(n) / template interpolation of a non-negative integer.
IntToStr(n) ==
  IF n < 10 THEN <<Digits[n + 1]>>
  ELSE IntToStr(n \div 10) \o <<Digits[(n % 10) + 1]>>

\* String(value) for a scalar JSON value.
StringOf(value) ==
  CASE value.t = "str" -> value.s
    [] value.t = "num" -> IntToStr(value.n)
    [] value.t = "bool" -> IF value.b THEN <<"t", "r", "u", "e">>
                           ELSE <<"f", "a", "l", "s", "e">>
    [] value.t = "null" -> <<"n", "u", "l", "l">>

\* s.substring(0, n)
Substring0(s, n) == SubSeq(s, 1, Min(Len(s), n))

UpperChars == <<"A", "B", "C", "D", "E", "F", "G", "H", "I", "J", "K", "L", "M",
                "N", "O", "P", "Q", "R", "S", "T", "U", "V", "W", "X", "Y", "Z">>
LowerChars == <<"a", "b", "c", "d", "e", "f", "g", "h", "i", "j", "k", "l", "m",
                "n", "o", "p", "q", "r", "s", "t", "u", "v", "w", "x", "y", "z">>

\* The lower-case letter of each upper-case letter.
LowerOf ==
  [c \in {UpperChars[i] : i \in 1..Len(UpperChars)} |->
     LowerChars[CHOOSE i \in 1..Len(UpperChars) : UpperChars[i] = c]]

ToLowerChar(c) == IF c \in DOMAIN LowerOf THEN LowerOf[c] ELSE c

\* s.toLowerCase()
ToLowerCase(s) == [i \in 1..Len(s) |-> ToLowerChar(s[i])]

\* hay.includes(needle)
Includes(hay, needle) ==
  \E i \in 0..(Len(hay) - Len(needle)) :
     SubSeq(hay, i + 1, i + Len(needle)) = needle

\* The class \s of the regular expressions, over the characters used.
IsSpace(c) == c \in {" ", "\t", "\n"}

\* s.trim()
RECURSIVE Trim(_)
Trim(s) ==
  IF s = <<>> THEN s
  ELSE IF IsSpace(Head(s)) THEN Trim(Tail(s))
  ELSE IF IsSpace(s[Len(s)]) THEN Trim(SubSeq(s, 1, Len(s) - 1))
  ELSE s

(***************************************************************************)
(* JSON.parse on a character sequence.  The texts of the model are written *)
(* with braces, brackets, commas, colons, both kinds of quotes, letters,   *)
(* digits and blanks: numbers are unsigned integers, strings hold no       *)
(* escapes, and any other character makes the parse fail.  A result is     *)
(* [ok, next, value]: next is the index after the value.                   *)
(***************************************************************************)
DigitChars == {Digits[i] : i \in 1..Len(Digits)}
LetterChars == {UpperChars[i] : i \in 1..Len(UpperChars)}
                 \cup {LowerChars[i] : i \in 1..Len(LowerChars)}

DigitValue(c) == (CHOOSE i \in 1..Len(Digits) : Digits[i] = c) - 1

ParseFail == [ok |-> FALSE, next |-> 0, value |-> Null]
ParseDone(next, value) == [ok |-> TRUE, next |-> next, value |-> value]

RECURSIVE SkipWs(_, _)
\* The first index from i on that holds no white space (Len(s) + 1 if none).
SkipWs(s, i) == IF i <= Len(s) /\ IsSpace(s[i]) THEN SkipWs(s, i + 1) ELSE i

RECURSIVE StringEnd(_, _)
\* The index of the quote that closes a string whose content starts at i
\* (0 if there is none, or a control character or a backslash comes first).
StringEnd(s, i) ==
  IF i > Len(s) \/ s[i] \in {"\\", "\n", "\t"} THEN 0
  ELSE IF s[i] = "\"" THEN i
  ELSE StringEnd(s, i + 1)

\* A string token that opens at i.
ParseString(s, i) ==
  LET e == StringEnd(s, i + 1)
  IN IF e = 0 THEN ParseFail ELSE ParseDone(e + 1, Str(SubSeq(s, i + 1, e - 1)))

RECURSIVE DigitsEnd(_, _)
DigitsEnd(s, i) == IF i <= Len(s) /\ s[i] \in DigitChars THEN DigitsEnd(s, i + 1) ELSE i

RECURSIVE DigitsValue(_, _, _)
DigitsValue(s, i, e) ==
  IF e < i THEN 0 ELSE DigitsValue(s, i, e - 1) * 10 + DigitValue(s[e])

\* A number token that starts with the digit at i; a leading 0 is a token of
\* its own.
ParseNumber(s, i) ==
  LET e == IF s[i] = "0" THEN i + 1 ELSE DigitsEnd(s, i)
  IN ParseDone(e, Num(DigitsValue(s, i, e - 1)))

\* The literal names.
ParseLiteral(s, i) ==
  IF SubSeq(s, i, Min(Len(s), i + 3)) = <<"t", "r", "u", "e">> THEN ParseDone(i + 4, Bool(TRUE))
  ELSE IF SubSeq(s, i, Min(Len(s), i + 4)) = <<"f", "a", "l", "s", "e">>
  THEN ParseDone(i + 5, Bool(FALSE))
  ELSE IF SubSeq(s, i, Min(Len(s), i + 3)) = <<"n", "u", "l", "l">> THEN ParseDone(i + 4, Null)
  ELSE ParseFail

\* A key that is an array index ("0", "1", "10", ...): JavaScript lists such
\* properties first, in ascending order.
IsIndexKey(k) ==
  /\ Len(k) > 0
  /\ \A i \in 1..Len(k) : k[i] \in DigitChars
  /\ (k[1] = "0" => Len(k) = 1)

\* obj[key] = value: a repeated key keeps its place and takes the new value.
PutEntry(entries, key, value) ==
  IF \E i \in 1..Len(entries) : entries[i].k = key
  THEN [i \in 1..Len(entries) |-> IF entries[i].k = key THEN KV(key, value) ELSE entries[i]]
  ELSE Append(entries, KV(key, value))

RECURSIVE SortIndexEntries(_)
\* Entries with index keys, in ascending order of the index.
SortIndexEntries(entries) ==
  IF entries = <<>> THEN <<>>
  ELSE LET least == CHOOSE i \in 1..Len(entries) :
                      \A j \in 1..Len(entries) :
                        DigitsValue(entries[i].k, 1, Len(entries[i].k))
                          <= DigitsValue(entries[j].k, 1, Len(entries[j].k))
       IN <<entries[least]>>
            \o SortIndexEntries(SelectSeq(entries, LAMBDA e : e.k # entries[least].k))

\* Object.entries order of the parsed object.
EntryOrder(entries) ==
  SortIndexEntries(SelectSeq(entries, LAMBDA e : IsIndexKey(e.k)))
    \o SelectSeq(entries, LAMBDA e : ~IsIndexKey(e.k))

RECURSIVE ParseValue(_, _), ParseElements(_, _, _, _), ParseMembers(_, _, _, _)
\* A value that starts at or after i.
ParseValue(s, i) ==
  LET j == SkipWs(s, i)
  IN IF j > Len(s) THEN ParseFail
     ELSE IF s[j] = "{" THEN ParseMembers(s, SkipWs(s, j + 1), <<>>, TRUE)
     ELSE IF s[j] = "[" THEN ParseElements(s, SkipWs(s, j + 1), <<>>, TRUE)
     ELSE IF s[j] = "\"" THEN ParseString(s, j)
     ELSE IF s[j] \in DigitChars THEN ParseNumber(s, j)
     ELSE ParseLiteral(s, j)

\* The elements of an array from i on (i holds no white space); first: no
\* element was read yet, so the array may close at once.
ParseElements(s, i, items, first) ==
  IF i > Len(s) THEN ParseFail
  ELSE IF first /\ s[i] = "]" THEN ParseDone(i + 1, Arr(items))
  ELSE LET r == ParseValue(s, i)
           k == SkipWs(s, r.next)
       IN IF ~r.ok \/ k > Len(s) THEN ParseFail
          ELSE IF s[k] = "," THEN ParseElements(s, SkipWs(s, k + 1), Append(items, r.value), FALSE)
          ELSE IF s[k] = "]" THEN ParseDone(k + 1, Arr(Append(items, r.value)))
          ELSE ParseFail

\* The members of an object from i on.
ParseMembers(s, i, entries, first) ==
  IF i > Len(s) THEN ParseFail
  ELSE IF first /\ s[i] = "}" THEN ParseDone(i + 1, Obj(EntryOrder(entries)))
  ELSE IF s[i] # "\"" THEN ParseFail
  ELSE LET key == ParseString(s, i)
           c == SkipWs(s, key.next)
       IN IF ~key.ok \/ c > Len(s) THEN ParseFail
          ELSE IF s[c] # ":" THEN ParseFail
          ELSE LET r == ParseValue(s, c + 1)
                   k == SkipWs(s, r.next)
               IN IF ~r.ok \/ k > Len(s) THEN ParseFail
                  ELSE IF s[k] = ","
                  THEN ParseMembers(s, SkipWs(s, k + 1),
                                    PutEntry(entries, key.value.s, r.value), FALSE)
                  ELSE IF s[k] = "}"
                  THEN ParseDone(k + 1,
                                 Obj(EntryOrder(PutEntry(entries, key.value.s, r.value))))
                  ELSE ParseFail

\* JSON.parse(s): one value, with nothing but white space around it.
JsonParse(s) ==
  LET r == ParseValue(s, 1)
  IN IF r.ok /\ SkipWs(s, r.next) > Len(s) THEN r ELSE ParseFail

(***************************************************************************)
(* The three replacements of validateAndFixJSON.  Each is a global regular *)
(* expression replace: the text is scanned from the left, and after a      *)
(* match the scan goes on behind it.                                       *)
(***************************************************************************)
IsIdentStart(c) == c \in LetterChars \cup {"_", "$"}
IsIdentChar(c) == IsIdentStart(c) \/ c \in DigitChars

RECURSIVE IdentEnd(_, _)
IdentEnd(s, i) == IF i <= Len(s) /\ IsIdentChar(s[i]) THEN IdentEnd(s, i + 1) ELSE i

RECURSIVE QuoteKeys(_, _)
\* .replace(/(\{|,)\s*([a-zA-Z_$][a-zA-Z0-9_$]*)\s*:/g, '$1"$2":') from i on
QuoteKeys(s, i) ==
  IF i > Len(s) THEN <<>>
  ELSE LET j == SkipWs(s, i + 1)
           e == IdentEnd(s, j)
           c == SkipWs(s, e)
       IN IF /\ s[i] \in {"{", ","}
             /\ j <= Len(s) /\ IsIdentStart(s[j])
             /\ c <= Len(s) /\ s[c] = ":"
          THEN <<s[i], "\"">> \o SubSeq(s, j, e - 1) \o <<"\"", ":">> \o QuoteKeys(s, c + 1)
          ELSE <<s[i]>> \o QuoteKeys(s, i + 1)

\* .replace(/'/g, '"')
DoubleQuotes(s) == [i \in 1..Len(s) |-> IF s[i] = "'" THEN "\"" ELSE s[i]]

RECURSIVE DropTrailingCommas(_, _)
\* .replace(/,(\s*[}\]])/g, '$1') from i on
DropTrailingCommas(s, i) ==
  IF i > Len(s) THEN <<>>
  ELSE LET j == SkipWs(s, i + 1)
       IN IF s[i] = "," /\ j <= Len(s) /\ s[j] \in {"}", "]"}
          THEN SubSeq(s, i + 1, j) \o DropTrailingCommas(s, j + 1)
          ELSE <<s[i]>> \o DropTrailingCommas(s, i + 1)

\* fixed
FixJson(s) == DropTrailingCommas(DoubleQuotes(QuoteKeys(s, 1)), 1)

GlyphExpanded == "▼"
GlyphCollapsed == "▶"

\* label.replace(/^[▼▶]\s/, '')
StripIndicator(label) ==
  IF Len(label) >= 2 /\ label[1] \in {GlyphExpanded, GlyphCollapsed} /\ IsSpace(label[2])
  THEN SubSeq(label, 3, Len(label))
  ELSE label

(***************************************************************************)
(* Ids.                                                                    *)
(***************************************************************************)
NullId == "null"
NodeId(n) == "node-" \o ToString(n)
WarningId == "node-warning"
EdgeId(source, target) == "edge-" \o source \o "-" \o target

(***************************************************************************)
(* Tree builder: processGraph and its inner traverse.                      *)
(* The traversal state (tempNodes, tempEdges, hierarchy, nodeIdCounter,    *)
(* isLimitReached), which the closure mutates, is threaded as a record.    *)
(* hierarchy is a JavaScript object: its keys in insertion order and the   *)
(* child list of each key.                                                 *)
(***************************************************************************)
EmptyHierarchy == [keys |-> <<>>, kids |-> <<>>]

HasKey(h, id) == id \in DOMAIN h.kids

\* hierarchy[id] || []
KidsOf(h, id) == IF HasKey(h, id) THEN h.kids[id] ELSE <<>>

\* if (!hierarchy[id]) hierarchy[id] = [];
EnsureKey(h, id) ==
  IF HasKey(h, id) THEN h
  ELSE [keys |-> Append(h.keys, id), kids |-> (id :> <<>>) @@ h.kids]

\* hierarchy[parentId].push(childId)
PushKid(h, parentId, childId) ==
  LET h1 == EnsureKey(h, parentId)
  IN [h1 EXCEPT !.kids[parentId] = Append(@, childId)]

IsContainer(value) == value.t \in {"arr", "obj"}

\* value.length / Object.entries(value).length
EntryCount(value) == IF value.t = "arr" THEN Len(value.items) ELSE Len(value.entries)

\* The key passed for the i-th child (1-based here, 0-based in the code).
ChildKey(value, i) ==
  IF value.t = "arr" THEN <<"[">> \o IntToStr(i - 1) \o <<"]">>
  ELSE value.entries[i].k

ChildValue(value, i) ==
  IF value.t = "arr" THEN value.items[i] ELSE value.entries[i].v

\* The label of a value node.
ValueLabel(key, value) ==
  IF IsContainer(value)
  THEN key \o <<" ">> \o (IF value.t = "arr" THEN <<"[", "]">> ELSE <<"{", "}">>)
  ELSE key \o <<":", " ">> \o Substring0(StringOf(value), 50)

\* `... ${n} more items` / `... ${n} more properties`
MoreLabel(value, n) ==
  <<".", ".", ".", " ">> \o IntToStr(n) \o <<" ", "m", "o", "r", "e", " ">>
    \o (IF value.t = "arr" THEN <<"i", "t", "e", "m", "s">>
        ELSE <<"p", "r", "o", "p", "e", "r", "t", "i", "e", "s">>)

\* `<warning sign, U+FE0F> Large JSON: Showing ${n} nodes (Limit: ${MAX_NODES})`
WarningLabel(n) ==
  <<"⚠", "U+FE0F", " ", "L", "a", "r", "g", "e", " ", "J", "S", "O", "N", ":", " ",
    "S", "h", "o", "w", "i", "n", "g", " ">> \o IntToStr(n)
    \o <<" ", "n", "o", "d", "e", "s", " ", "(", "L", "i", "m", "i", "t", ":", " ">>
    \o IntToStr(MAX_NODES) \o <<")">>

\* A node object, with the fields the handlers read or write.
MkNode(id, label, isObject, hasChildren, parentId, className) ==
  [id |-> id, label |-> label, isObject |-> isObject, hasChildren |-> hasChildren,
   collapsedHidden |-> FALSE, parentId |-> parentId, type |-> "default",
   className |-> className, hidden |-> FALSE, outline |-> "unset",
   position |-> [x |-> 0, y |-> 0]]

MkEdge(source, target) ==
  [id |-> EdgeId(source, target), source |-> source, target |-> target, hidden |-> FALSE]

\* The value node pushed by traverse (JsonGraph.jsx 218-230).
ValueNode(id, key, value, parentId) ==
  MkNode(id, ValueLabel(key, value), IsContainer(value), IsContainer(value), parentId,
         IF IsContainer(value) THEN "node-object" ELSE "node-primitive")

\* The synthetic "more" node: it has no isObject, hasChildren or parentId.
MoreNode(id, value, n) == MkNode(id, MoreLabel(value, n), FALSE, FALSE, NullId, "node-primitive")

\* (mutant) the depth test off by one.
LimitHitEarly(acc, depth) == acc.nodeIdCounter >= MAX_NODES \/ depth >= MAX_DEPTH

\* The limit test at the head of traverse.
LimitHit(acc, depth) == acc.nodeIdCounter >= MAX_NODES \/ depth > MAX_DEPTH

\* The test guarding the recursive step.
MayRecurse(acc, value, depth) ==
  IsContainer(value) /\ acc.nodeIdCounter < MAX_NODES /\ depth < MAX_DEPTH

\* (mutant) the "more" node is added from 50 entries on.
AddMoreFromFifty(acc, value, currentId, shown) ==
  IF EntryCount(value) >= MAX_ARRAY_ITEMS
  THEN LET moreId == NodeId(acc.nodeIdCounter)
       IN [acc EXCEPT !.nodeIdCounter = @ + 1,
                      !.tempNodes = Append(@, MoreNode(moreId, value, EntryCount(value) - shown)),
                      !.tempEdges = Append(@, MkEdge(currentId, moreId))]
  ELSE acc

\* The "more" node and its edge, appended after the loop over the children.
AddMore(acc, value, currentId, shown) ==
  IF EntryCount(value) > shown
  THEN LET moreId == NodeId(acc.nodeIdCounter)
       IN [acc EXCEPT !.nodeIdCounter = @ + 1,
                      !.tempNodes = Append(@, MoreNode(moreId, value, EntryCount(value) - shown)),
                      !.tempEdges = Append(@, MkEdge(currentId, moreId))]
  ELSE acc

\* Node, adjacency entry and edge of one visited value.
Visit(acc, key, value, parentId) ==
  LET currentId == NodeId(acc.nodeIdCounter)
      h1 == EnsureKey(acc.hierarchy, currentId)
  IN [acc EXCEPT !.nodeIdCounter = @ + 1,
                 !.tempNodes = Append(@, ValueNode(currentId, key, value, parentId)),
                 !.hierarchy = IF parentId # NullId THEN PushKid(h1, parentId, currentId) ELSE h1,
                 !.tempEdges = IF parentId # NullId THEN Append(@, MkEdge(parentId, currentId)) ELSE @]

RECURSIVE traverse(_, _, _, _, _)
RECURSIVE TraverseChildren(_, _, _, _, _, _)

\* The for loop over the children lo..hi, in order.  The range is cut into
\* eight parts that are completed one after the other (the tests on the
\* counters are always true) so that the evaluation stays shallow.
TraverseChildren(acc, value, currentId, depth, lo, hi) ==
  IF lo > hi THEN acc
  ELSE IF lo = hi
  THEN traverse(acc, ChildKey(value, lo), ChildValue(value, lo), currentId, depth + 1)
  ELSE LET w == (hi - lo) \div 8 + 1
           a1 == TraverseChildren(acc, value, currentId, depth, lo, Min(hi, lo + w - 1))
           a2 == TraverseChildren(a1, value, currentId, depth, lo + w, Min(hi, lo + 2 * w - 1))
           a3 == TraverseChildren(a2, value, currentId, depth, lo + 2 * w, Min(hi, lo + 3 * w - 1))
           a4 == TraverseChildren(a3, value, currentId, depth, lo + 3 * w, Min(hi, lo + 4 * w - 1))
           a5 == TraverseChildren(a4, value, currentId, depth, lo + 4 * w, Min(hi, lo + 5 * w - 1))
           a6 == TraverseChildren(a5, value, currentId, depth, lo + 5 * w, Min(hi, lo + 6 * w - 1))
           a7 == TraverseChildren(a6, value, currentId, depth, lo + 6 * w, Min(hi, lo + 7 * w - 1))
       IN IF /\ a1.nodeIdCounter >= 0 /\ a2.nodeIdCounter >= 0 /\ a3.nodeIdCounter >= 0
             /\ a4.nodeIdCounter >= 0 /\ a5.nodeIdCounter >= 0 /\ a6.nodeIdCounter >= 0
             /\ a7.nodeIdCounter >= 0
          THEN TraverseChildren(a7, value, currentId, depth, lo + 7 * w, hi)
          ELSE a7

traverse(acc, key, value, parentId, depth) ==
  IF LimitHit(acc, depth) THEN [acc EXCEPT !.isLimitReached = TRUE]
  ELSE LET currentId == NodeId(acc.nodeIdCounter)
           a1 == Visit(acc, key, value, parentId)
       IN IF MayRecurse(a1, value, depth)
          THEN LET shown == Min(EntryCount(value),
                                IF value.t = "arr" THEN MAX_ARRAY_ITEMS ELSE MAX_OBJECT_PROPS)
               IN AddMore(TraverseChildren(a1, value, currentId, depth, 1, shown),
                          value, currentId, shown)
          ELSE a1

TraverseStart ==
  [tempNodes |-> <<>>, tempEdges |-> <<>>, hierarchy |-> EmptyHierarchy,
   nodeIdCounter |-> 0, isLimitReached |-> FALSE]

\* tempNodes.unshift(warning node) when the limit was reached.
WithWarning(acc) ==
  IF acc.isLimitReached
  THEN <<[MkNode(WarningId, WarningLabel(Len(acc.tempNodes)), FALSE, FALSE, NullId, "node-warning")
            EXCEPT !.type = "default"]>> \o acc.tempNodes
  ELSE acc.tempNodes

\* The initial "▼ " indicator of the containers that have children.
WithIndicator(node, hierarchy) ==
  IF node.hasChildren /\ HasKey(hierarchy, node.id) /\ Len(hierarchy.kids[node.id]) > 0
  THEN [node EXCEPT !.label = <<GlyphExpanded, " ">> \o @]
  ELSE node

(***************************************************************************)
(* getLayoutedElements.  dagre is an imported library: of its left-to-right *)
(* layout the model keeps what the component relies on, namely that a       *)
(* node's rank is one more than the rank of the source of its incoming      *)
(* edge (0 without one) and that the boxes of one rank are stacked in       *)
(* node-list order, NodeSep apart, without overlap; ranks are RankSep       *)
(* apart.  position is the top-left corner of the box.                      *)
(***************************************************************************)
nodeWidth == 220
nodeHeight == 60
RankSep == 50
NodeSep == 50

\* The rank of id in the rank table built so far.
RankAt(rank, id) == IF id \in DOMAIN rank THEN rank[id] ELSE 0

RECURSIVE RankEdges(_, _, _, _)
\* The rank table after the edges lo..hi, taken in edge order.  The range is
\* cut into eight parts that are completed one after the other (the tests on
\* the tables are always true) so that the evaluation stays shallow.
RankEdges(layoutEdges, lo, hi, rank) ==
  IF lo > hi THEN rank
  ELSE IF lo = hi
  THEN LET e == layoutEdges[lo]
       IN (e.target :> RankAt(rank, e.source) + 1) @@ rank
  ELSE LET w == (hi - lo) \div 8 + 1
           r1 == RankEdges(layoutEdges, lo, Min(hi, lo + w - 1), rank)
           r2 == RankEdges(layoutEdges, lo + w, Min(hi, lo + 2 * w - 1), r1)
           r3 == RankEdges(layoutEdges, lo + 2 * w, Min(hi, lo + 3 * w - 1), r2)
           r4 == RankEdges(layoutEdges, lo + 3 * w, Min(hi, lo + 4 * w - 1), r3)
           r5 == RankEdges(layoutEdges, lo + 4 * w, Min(hi, lo + 5 * w - 1), r4)
           r6 == RankEdges(layoutEdges, lo + 5 * w, Min(hi, lo + 6 * w - 1), r5)
           r7 == RankEdges(layoutEdges, lo + 6 * w, Min(hi, lo + 7 * w - 1), r6)
       IN IF /\ DOMAIN r1 # {} /\ DOMAIN r2 # {} /\ DOMAIN r3 # {} /\ DOMAIN r4 # {}
             /\ DOMAIN r5 # {} /\ DOMAIN r6 # {} /\ DOMAIN r7 # {}
          THEN RankEdges(layoutEdges, lo + 7 * w, hi, r7)
          ELSE r7

\* The i-th node placed: st.used[r] is the number of boxes already stacked in
\* rank r, st.placed the nodes placed so far.
PlaceNode(layoutNodes, i, rank, st) ==
  LET node == layoutNodes[i]
      r == RankAt(rank, node.id)
      row == IF r \in DOMAIN st.used THEN st.used[r] ELSE 0
  IN [used |-> (r :> row + 1) @@ st.used,
      placed |-> Append(st.placed, [node EXCEPT !.position =
                                      [x |-> r * (nodeWidth + RankSep),
                                       y |-> row * (nodeHeight + NodeSep)]])]

RECURSIVE PlaceNodes(_, _, _, _, _)
\* The nodes lo..hi placed in node-list order, in eight parts as above.
PlaceNodes(layoutNodes, lo, hi, rank, st) ==
  IF lo > hi THEN st
  ELSE IF lo = hi THEN PlaceNode(layoutNodes, lo, rank, st)
  ELSE LET w == (hi - lo) \div 8 + 1
           s1 == PlaceNodes(layoutNodes, lo, Min(hi, lo + w - 1), rank, st)
           s2 == PlaceNodes(layoutNodes, lo + w, Min(hi, lo + 2 * w - 1), rank, s1)
           s3 == PlaceNodes(layoutNodes, lo + 2 * w, Min(hi, lo + 3 * w - 1), rank, s2)
           s4 == PlaceNodes(layoutNodes, lo + 3 * w, Min(hi, lo + 4 * w - 1), rank, s3)
           s5 == PlaceNodes(layoutNodes, lo + 4 * w, Min(hi, lo + 5 * w - 1), rank, s4)
           s6 == PlaceNodes(layoutNodes, lo + 5 * w, Min(hi, lo + 6 * w - 1), rank, s5)
           s7 == PlaceNodes(layoutNodes, lo + 6 * w, Min(hi, lo + 7 * w - 1), rank, s6)
       IN IF /\ Len(s1.placed) > 0 /\ Len(s2.placed) > 0 /\ Len(s3.placed) > 0
             /\ Len(s4.placed) > 0 /\ Len(s5.placed) > 0 /\ Len(s6.placed) > 0
             /\ Len(s7.placed) > 0
          THEN PlaceNodes(layoutNodes, lo + 7 * w, hi, rank, s7)
          ELSE s7

\* The rank table is completed before the nodes are placed (the test on it is
\* always true).
getLayoutedElements(layoutNodes, layoutEdges) ==
  LET rank == RankEdges(layoutEdges, 1, Len(layoutEdges), <<>>)
  IN IF Cardinality(DOMAIN rank) >= 0
     THEN [nodes |-> PlaceNodes(layoutNodes, 1, Len(layoutNodes), rank,
                                [used |-> <<>>, placed |-> <<>>]).placed,
           edges |-> layoutEdges]
     ELSE [nodes |-> layoutNodes, edges |-> layoutEdges]

\* What processGraph installs for a parsed value: nodes, edges, adjacency.
BuildGraph(parsedData) ==
  LET acc == traverse(TraverseStart, <<"R", "o", "o", "t">>, parsedData, NullId, 0)
      layouted == getLayoutedElements(WithWarning(acc), acc.tempEdges)
      tempNodes == layouted.nodes
  IN [nodes |-> [i \in 1..Len(tempNodes) |-> WithIndicator(tempNodes[i], acc.hierarchy)],
      edges |-> layouted.edges,
      hierarchy |-> acc.hierarchy]

(***************************************************************************)
(* Input texts.  The editor text (Home's jsonCode, passed as the data prop) *)
(* is named by a descriptor [fam, n] and JSON.parse is the table           *)
(* ParsedValue below: it throws on the texts of family "invalid", and the  *)
(* empty text is falsy.                                                    *)
(***************************************************************************)
MaxFlat == 60
MaxChain == 12

K(c) == <<c>>
Desc(fam, n) == [fam |-> fam, n |-> n]

RECURSIVE Chain(_, _)
\* d single-element arrays nested around the value v: v sits at depth d + 1.
Chain(d, v) == IF d = 0 THEN v ELSE Arr(<<Chain(d - 1, v)>>)

\* An array of n arrays of m arrays of two numbers.
Grid(n, m) == Arr(Rep(n, Arr(Rep(m, Arr(Rep(2, Num(1)))))))

\* An object of n numeric properties k0, k1, ...
Props(n) == Obj([i \in 1..n |-> KV(<<"k">> \o IntToStr(i - 1), Num(i))])

\* Six values that take 2998 nodes together.
Fill2998 ==
  <<Grid(50, 16), Grid(8, 16), Arr(Rep(50, Num(1))), Arr(Rep(50, Num(1))),
    Arr(Rep(46, Num(1))), Arr(Rep(4, Num(1)))>>

NamedValue(n) ==
  CASE n = 1 -> \* {"a": {"b": 1}}
                Obj(<<KV(K("a"), Obj(<<KV(K("b"), Num(1))>>))>>)
    [] n = 2 -> \* {"a": {"B": {"c": true}}}
                Obj(<<KV(K("a"), Obj(<<KV(K("B"), Obj(<<KV(K("c"), Bool(TRUE))>>))>>))>>)
    [] n = 3 -> \* an array of 52 numbers
                Arr([i \in 1..52 |-> Num(i)])
    [] n = 4 -> \* 3002 value/more nodes are created: two truncated arrays are closed
                \* after the node limit is reached
                Grid(60, 60)
    [] n = 5 -> \* 3000 values, then a container whose only child is never visited
                Arr(Fill2998 \o <<Arr(<<Num(1)>>)>>)
    [] n = 6 -> \* 2999 values: one short of the node limit
                Arr(Fill2998)
    [] n = 7 -> \* exactly 3000 values and nothing after them
                Arr(Fill2998 \o <<Num(1)>>)
    [] n = 8 -> \* the limit is reached in several branches
                Arr(Rep(40, Grid(40, 2)))
    [] n = 9 -> \* a string value longer than 50 characters
                Obj(<<KV(K("s"), Str(Rep(55, "x")))>>)
    [] n = 10 -> \* a key that itself starts with an indicator glyph
                Obj(<<KV(<<GlyphCollapsed, " ", "k">>, Arr(<<Num(0)>>))>>)
    [] n = 11 -> \* 100 nodes: an array of 51 numbers (50 nodes and a "more" node)
                \* and an array of 46 numbers
                Arr(<<Arr(Rep(51, Num(1))), Arr(Rep(46, Num(1)))>>)

\* JSON.parse(text) for a text that parses.
ParsedValue(d) ==
  CASE d.fam = "flat" -> Arr(Rep(d.n, Num(d.n)))
    [] d.fam = "props" -> Props(d.n)
    [] d.fam = "chain" -> Chain(d.n, Arr(<<Num(1)>>))
    [] d.fam = "chainEmpty" -> Chain(d.n, Obj(<<>>))
    [] d.fam = "chainWide" -> Chain(d.n, Arr(Rep(51, Num(1))))
    [] d.fam = "named" -> NamedValue(d.n)
    [] d.fam = "text" -> JsonParse(d.s).value

\* JSON.parse(text) throws.
ParseThrows(d) == d.fam = "invalid" \/ (d.fam = "text" /\ ~JsonParse(d.s).ok)

\* !data
IsEmptyText(d) == d.fam = "empty" \/ (d.fam = "text" /\ d.s = <<>> /\ d.pad = 0)

(***************************************************************************)
(* The texts of the editor specification are written out: Txt(s, pad) is   *)
(* the characters s followed by pad spaces, where s does not end with a    *)
(* space.  The spaces are counted so that a text of more than 100000       *)
(* characters is a small value.                                            *)
(***************************************************************************)
Txt(s, pad) == [fam |-> "text", s |-> s, pad |-> pad]

\* value.length
TextLength(d) == Len(d.s) + d.pad

\* jsonCode + ' '
AppendSpace(d) == Txt(d.s, d.pad + 1)

\* jsonCode.trim()
TrimText(d) == Txt(Trim(d.s), 0)

\* !jsonString || jsonString.trim() === ''
IsBlankText(d) == Trim(d.s) = <<>>

\* The text after the three replacements: none of them matches inside the
\* spaces that end the text.
FixedText(d) == Txt(FixJson(d.s), d.pad)

NoData == Desc("none", 0)

\* The texts of the interactive specification.
InteractiveTexts ==
  {Desc("named", 1), Desc("named", 2), Desc("invalid", 0), Desc("empty", 0)}

\* The texts of the tree-builder specification.
BuildTexts ==
  {Desc("flat", n) : n \in 0..MaxFlat}
    \cup {Desc("props", n) : n \in {0, 1, 49, 50, 51, 52}}
    \cup {Desc(f, n) : f \in {"chain", "chainEmpty", "chainWide"}, n \in 0..MaxChain}
    \cup {Desc("named", n) : n \in 1..10}
    \cup {Desc("invalid", 0), Desc("invalid", 1), Desc("empty", 0)}

(***************************************************************************)
(* State: Home's jsonCode (the text handed to JsonGraph as its data prop),  *)
(* the hooks of JsonGraphInner, data (the text the data effect last ran    *)
(* with), the timers in flight, and two history variables used only to     *)
(* state properties: lastOp (the handler that ran last) and snap (the      *)
(* hidden flags just before the last collapsing click).                    *)
(*   renderPending the data effect has replaced the node list and the      *)
(*                render that follows (in which the virtualization effect  *)
(*                is cleaned up and run again) has not been committed yet; *)
(*   isValid, validationMessage  MonoEditor's validation hooks;            *)
(*   validateTimer the 500 ms timeout of MonoEditor's validation effect is *)
(*                pending;                                                 *)
(*   refreshTimers the texts captured by the pending 100 ms timeouts of    *)
(*                handleRefresh, oldest first;                             *)
(*   viewport     the viewport hook: x, y and zoom, the zoom in tenths;    *)
(*   virtTimer    the 150 ms timeout of the virtualization effect is       *)
(*                pending;                                                 *)
(*   centerTimers the node ids that pending 50 ms timeouts of              *)
(*                navigateSearch will center the view on.                  *)
(***************************************************************************)
VARIABLES jsonCode, data, nodes, edges, collapsedNodes, nodeHierarchy, searchQuery,
          matchedNodes, currentMatchIndex, viewport, virtTimer, centerTimers,
          renderPending, isValid, validationMessage, validateTimer, refreshTimers,
          lastOp, snap

vars == <<jsonCode, data, nodes, edges, collapsedNodes, nodeHierarchy, searchQuery,
          matchedNodes, currentMatchIndex, viewport, virtTimer, centerTimers,
          renderPending, isValid, validationMessage, validateTimer, refreshTimers,
          lastOp, snap>>

\* MonoEditor's hooks and the timers of the editor pane.
editorVars == <<isValid, validationMessage, validateTimer, refreshTimers>>

Op(op, id) == [op |-> op, id |-> id]

\* The hooks' initial values; the data effect has not run yet.
Mounted(texts) ==
  /\ jsonCode \in texts
  /\ data = NoData
  /\ nodes = <<>>
  /\ edges = <<>>
  /\ collapsedNodes = {}
  /\ nodeHierarchy = EmptyHierarchy
  /\ searchQuery = <<>>
  /\ matchedNodes = <<>>
  /\ currentMatchIndex = 0
  /\ viewport = [x |-> 0, y |-> 0, zoom |-> 10]
  /\ virtTimer = FALSE
  /\ centerTimers = {}
  /\ renderPending = FALSE
  /\ isValid = TRUE
  /\ validationMessage = "none"
  /\ validateTimer = TRUE
  /\ refreshTimers = <<>>
  /\ lastOp = Op("init", NullId)
  /\ snap = <<>>

Init == Mounted(InteractiveTexts)

\* Effects run, and their state updates are rendered, before the next event
\* is handled.
EffectsFlushed == data = jsonCode /\ ~renderPending

\* MonoEditor's onChange (setJsonCode): the editor text becomes d.
OnChange(d) ==
  /\ EffectsFlushed
  /\ d # jsonCode
  /\ jsonCode' = d
  /\ validateTimer' = TRUE
  /\ UNCHANGED <<isValid, validationMessage, refreshTimers, renderPending>>
  /\ UNCHANGED <<data, nodes, edges, collapsedNodes, nodeHierarchy, searchQuery,
                 matchedNodes, currentMatchIndex, viewport, virtTimer, centerTimers,
                 lastOp, snap>>

\* The virtualization effect (dependencies viewport and nodes) after a render
\* with the node list ns: its cleanup clears the pending timeout, and it sets a
\* new one unless the list has fewer than 100 nodes.
enableVirtualization == TRUE
VirtualizationMinNodes == 100
TimerAfterRender(ns) == enableVirtualization /\ Len(ns) >= VirtualizationMinNodes

\* n.data.isObject ? 'node-object' : 'node-primitive'
BaseClass(n) == IF n.isObject THEN "node-object" ELSE "node-primitive"

\* className.includes('node-object')
IsObjectClass(className) == className \in {"node-object", "node-object node-search-match"}

(***************************************************************************)
(* processGraph: on a text that parses, install the new graph; when        *)
(* JSON.parse throws, the catch block installs nothing.                    *)
(***************************************************************************)
\* (mutant) the failure path clears the node list.
processGraphPartial(jsonString, current) ==
  IF ParseThrows(jsonString) THEN [current EXCEPT !.nodes = <<>>]
  ELSE BuildGraph(ParsedValue(jsonString))

processGraph(jsonString, current) ==
  IF ParseThrows(jsonString) THEN current ELSE BuildGraph(ParsedValue(jsonString))

\* The effect on [data, processGraph]: it runs at mount and when the data prop
\* has changed.  Its state updates are rendered afterwards (a passive effect's
\* updates are not flushed synchronously under createRoot): while a timeout of
\* the virtualization effect is pending, that render is a step of its own
\* (Render), before which the timeout can still fire; with no timeout pending
\* nothing can come between, and the render is part of this step.
DataEffect ==
  /\ data # jsonCode
  /\ data' = jsonCode
  /\ UNCHANGED jsonCode
  /\ IF IsEmptyText(jsonCode)
     THEN /\ UNCHANGED <<nodes, edges, nodeHierarchy, searchQuery, matchedNodes,
                         currentMatchIndex, virtTimer, renderPending>>
          /\ lastOp' = Op("noData", NullId)
     ELSE LET g == processGraph(jsonCode, [nodes |-> nodes, edges |-> edges,
                                    hierarchy |-> nodeHierarchy])
          IN /\ searchQuery' = <<>>
             /\ matchedNodes' = <<>>
             /\ currentMatchIndex' = 0
             /\ nodes' = g.nodes
             /\ edges' = g.edges
             /\ nodeHierarchy' = g.hierarchy
             /\ virtTimer' = IF ParseThrows(jsonCode) \/ virtTimer THEN virtTimer
                              ELSE TimerAfterRender(g.nodes)
             /\ renderPending' = IF ParseThrows(jsonCode) THEN renderPending ELSE virtTimer
             /\ lastOp' = Op(IF ParseThrows(jsonCode) THEN "parseFail" ELSE "parse", NullId)
  /\ snap' = <<>>
  /\ UNCHANGED editorVars
  /\ UNCHANGED <<collapsedNodes, viewport, centerTimers>>

\* The render that follows the data effect's setNodes: the cleanup of the
\* virtualization effect clears the pending timeout and the effect runs on
\* the new node list.
Render ==
  /\ renderPending
  /\ renderPending' = FALSE
  /\ virtTimer' = TimerAfterRender(nodes)
  /\ UNCHANGED editorVars
  /\ UNCHANGED <<jsonCode, data, nodes, edges, collapsedNodes, nodeHierarchy, searchQuery,
                 matchedNodes, currentMatchIndex, viewport, centerTimers, lastOp, snap>>

(***************************************************************************)
(* onNodeClick: collapse/expand toggle.                                    *)
(***************************************************************************)
RECURSIVE ChildrenOfAll(_, _, _, _)
\* The child lists of queue[lo..hi], concatenated in queue order (the range is
\* halved so that the evaluation stays shallow).
ChildrenOfAll(h, queue, lo, hi) ==
  IF lo > hi THEN <<>>
  ELSE IF lo = hi THEN KidsOf(h, queue[lo])
  ELSE LET mid == (lo + hi) \div 2
       IN ChildrenOfAll(h, queue, lo, mid) \o ChildrenOfAll(h, queue, mid + 1, hi)

RECURSIVE Bfs(_, _, _)
\* The while loop over the FIFO queue, one generation at a time: the ids
\* shifted while the queue holds one generation push the next generation, in
\* the same order, onto the queue and onto descendants.
Bfs(h, queue, descendants) ==
  IF queue = <<>> THEN descendants
  ELSE LET children == ChildrenOfAll(h, queue, 1, Len(queue))
       IN IF Len(children) >= 0 THEN Bfs(h, children, descendants \o children)
          ELSE descendants

\* (mutant) the queue is not refilled: the children only.
getAllDescendantsShallow(h, id) == KidsOf(h, id)

\* getAllDescendants(id): breadth-first over the adjacency map.
getAllDescendants(h, id) == Bfs(h, <<id>>, <<>>)

\* list.includes(x)
InSeq(list, x) == \E i \in 1..Len(list) : list[i] = x

\* (mutant) only the containers among the descendants are hidden or shown.
ClickNodeContainersOnly(n, nodeId, descendants, isCurrentlyCollapsed) ==
  IF n.id \in descendants /\ n.isObject
  THEN [n EXCEPT !.hidden = ~isCurrentlyCollapsed, !.collapsedHidden = ~isCurrentlyCollapsed]
  ELSE IF n.id = nodeId /\ n.hasChildren
  THEN [n EXCEPT !.label = <<IF isCurrentlyCollapsed THEN GlyphExpanded ELSE GlyphCollapsed, " ">>
                              \o StripIndicator(@)]
  ELSE n

\* The node map of onNodeClick (descendants is passed as the set of its ids).
ClickNode(n, nodeId, descendants, isCurrentlyCollapsed) ==
  IF n.id \in descendants
  THEN [n EXCEPT !.hidden = ~isCurrentlyCollapsed, !.collapsedHidden = ~isCurrentlyCollapsed]
  ELSE IF n.id = nodeId /\ n.hasChildren
  THEN [n EXCEPT !.label = <<IF isCurrentlyCollapsed THEN GlyphExpanded ELSE GlyphCollapsed, " ">>
                              \o StripIndicator(@)]
  ELSE n

\* The edge map of onNodeClick.
ClickEdge(e, descendants, isCurrentlyCollapsed) ==
  IF e.target \in descendants \/ e.source \in descendants
  THEN [e EXCEPT !.hidden = ~isCurrentlyCollapsed]
  ELSE e

\* A click on the i-th node; only rendered (not hidden) nodes can be clicked,
\* and the handler returns at once unless the node has the class node-object.
OnNodeClick(i) ==
  /\ EffectsFlushed
  /\ ~nodes[i].hidden
  /\ IsObjectClass(nodes[i].className)
  /\ \E list \in {getAllDescendants(nodeHierarchy, nodes[i].id)} :
       LET node == nodes[i]
           nodeId == node.id
           isCurrentlyCollapsed == nodeId \in collapsedNodes
           descendants == {list[k] : k \in 1..Len(list)}
       IN /\ collapsedNodes' = IF isCurrentlyCollapsed THEN collapsedNodes \ {nodeId}
                               ELSE collapsedNodes \cup {nodeId}
          /\ nodes' = [k \in 1..Len(nodes) |->
                         ClickNode(nodes[k], nodeId, descendants, isCurrentlyCollapsed)]
          /\ edges' = [k \in 1..Len(edges) |->
                         ClickEdge(edges[k], descendants, isCurrentlyCollapsed)]
          /\ virtTimer' = TimerAfterRender(nodes)
          /\ IF isCurrentlyCollapsed
             THEN /\ lastOp' = Op(IF lastOp.op = "collapse" /\ lastOp.id = nodeId
                                  THEN "reExpand" ELSE "expand", nodeId)
                  /\ snap' = IF lastOp.op = "collapse" /\ lastOp.id = nodeId THEN snap ELSE <<>>
             ELSE /\ lastOp' = Op("collapse", nodeId)
                  /\ snap' = [k \in 1..Len(nodes) |-> nodes[k].hidden]
  /\ UNCHANGED <<editorVars, renderPending>>
  /\ UNCHANGED <<jsonCode, data, nodeHierarchy, searchQuery, matchedNodes, currentMatchIndex,
                 viewport, centerTimers>>

(***************************************************************************)
(* handleSearch, navigateSearch.                                           *)
(***************************************************************************)
\* (mutant) the label is not lower-cased.
LabelMatchesCaseSensitive(node, lowerQuery) ==
  /\ Len(node.label) > 0
  /\ Includes(StripIndicator(node.label), lowerQuery)

\* The label test of the linear scan.
LabelMatches(node, lowerQuery) ==
  /\ Len(node.label) > 0
  /\ Includes(ToLowerCase(StripIndicator(node.label)), lowerQuery)

\* matches: the ids of the matching nodes, in node-list order.
FindMatches(currentNodes, lowerQuery) ==
  LET hit == SelectSeq(currentNodes, LAMBDA n : LabelMatches(n, lowerQuery))
  IN [i \in 1..Len(hit) |-> hit[i].id]

\* Two tables id -> key list merged: the lists of a are before those of b.
MergeKeys(a, b) ==
  [id \in DOMAIN a \cup DOMAIN b |->
     (IF id \in DOMAIN a THEN a[id] ELSE <<>>) \o (IF id \in DOMAIN b THEN b[id] ELSE <<>>)]

RECURSIVE KidsTable(_, _, _, _)
\* The ids kids[lo..hi] of the key gp, each mapped to <<gp>>.
KidsTable(gp, kids, lo, hi) ==
  IF lo > hi THEN <<>>
  ELSE IF lo = hi THEN kids[lo] :> <<gp>>
  ELSE LET mid == (lo + hi) \div 2
           left == KidsTable(gp, kids, lo, mid)
           right == KidsTable(gp, kids, mid + 1, hi)
       IN MergeKeys(left, right)

RECURSIVE KeysIncluding(_, _, _)
\* For every id listed under one of the keys lo..hi of the adjacency map: the
\* keys whose child list includes it, in key order.  Both the filter and the
\* find of handleSearch scan Object.keys(nodeHierarchy) with this test; the
\* table holds their results for every id.
KeysIncluding(h, lo, hi) ==
  IF lo > hi THEN <<>>
  ELSE IF lo = hi THEN KidsTable(h.keys[lo], h.kids[h.keys[lo]], 1, Len(h.kids[h.keys[lo]]))
  ELSE LET mid == (lo + hi) \div 2
           left == KeysIncluding(h, lo, mid)
           right == KeysIncluding(h, mid + 1, hi)
       IN MergeKeys(left, right)

\* The keys of the adjacency map whose child list includes childId, in key order.
ParentsOf(including, childId) ==
  IF childId \in DOMAIN including THEN including[childId] ELSE <<>>

\* findParent(childId): the first such key, or undefined.
findParent(including, childId) ==
  LET parents == ParentsOf(including, childId)
  IN IF parents = <<>> THEN NullId ELSE Head(parents)

RECURSIVE WalkUp(_, _)
\* while (currentParent) { nodesToExpand.add(currentParent); currentParent = findParent(...) }
WalkUp(including, currentParent) ==
  IF currentParent = NullId THEN {}
  ELSE {currentParent} \cup WalkUp(including, findParent(including, currentParent))

\* nodesToExpand: every ancestor of every match.
NodesToExpand(h, matches) ==
  LET including == KeysIncluding(h, 1, Len(h.keys))
  IN UNION {LET parents == ParentsOf(including, matches[i])
            IN UNION {WalkUp(including, parents[j]) : j \in 1..Len(parents)}
            : i \in 1..Len(matches)}

\* The ids that the breadth-first scans of isDescendantOfCollapsed find: the
\* descendants of each id of the closure's collapsed set that is not in
\* nodesToExpand (the same for every node, and computed once here).
CollapsedDescendants(h, collapsed, nodesToExpand) ==
  UNION {LET list == getAllDescendants(h, collapsedId)
         IN {list[k] : k \in 1..Len(list)} : collapsedId \in collapsed \ nodesToExpand}

\* isDescendantOfCollapsed for node id.
IsDescendantOfCollapsed(collapsedDescendants, id) == id \in collapsedDescendants

\* The node map at the end of handleSearch.
SearchNode(n, collapsedDescendants, matches, nodesToExpand) ==
  LET shouldBeHidden ==
        IF nodesToExpand # {} THEN IsDescendantOfCollapsed(collapsedDescendants, n.id)
        ELSE FALSE
  IN [n EXCEPT !.hidden = shouldBeHidden,
               !.collapsedHidden = shouldBeHidden,
               !.className = IF InSeq(matches, n.id)
                             THEN BaseClass(n) \o " node-search-match" ELSE BaseClass(n),
               !.outline = IF InSeq(matches, n.id) THEN "match" ELSE "none"]

\* (mutant) the outline of the matches is kept.
ClearNodeClassOnly(n) == [n EXCEPT !.className = BaseClass(n)]

\* The node map of the clearing branch (and of clearSearch).
ClearNode(n) == [n EXCEPT !.className = BaseClass(n), !.outline = "none"]

\* !query.trim()
IsBlank(query) == Trim(query) = <<>>

HandleSearch(query) ==
  /\ EffectsFlushed
  /\ searchQuery' = query
  /\ IF IsBlank(query)
     THEN /\ matchedNodes' = <<>>
          /\ currentMatchIndex' = 0
          /\ nodes' = [k \in 1..Len(nodes) |-> ClearNode(nodes[k])]
          /\ UNCHANGED collapsedNodes
          /\ lastOp' = Op("clear", NullId)
     ELSE \E matches \in {FindMatches(nodes, ToLowerCase(query))} :
          \E nodesToExpand \in {NodesToExpand(nodeHierarchy, matches)} :
          \E collapsedDescendants \in
                {CollapsedDescendants(nodeHierarchy, collapsedNodes, nodesToExpand)} :
             /\ matchedNodes' = matches
             /\ currentMatchIndex' = IF Len(matches) > 0 THEN 0 ELSE -1
             /\ collapsedNodes' = collapsedNodes \ nodesToExpand
             /\ nodes' = [k \in 1..Len(nodes) |->
                            SearchNode(nodes[k], collapsedDescendants, matches, nodesToExpand)]
             /\ lastOp' = Op("search", NullId)
  /\ virtTimer' = TimerAfterRender(nodes)
  /\ snap' = <<>>
  /\ UNCHANGED <<editorVars, renderPending>>
  /\ UNCHANGED <<jsonCode, data, edges, nodeHierarchy, viewport, centerTimers>>

\* (mutant) the index stops at either end of the list.
NewIndexClamped(direction, index, length) ==
  IF direction = "next"
  THEN IF index + 1 < length THEN index + 1 ELSE index
  ELSE IF index > 0 THEN index - 1 ELSE index

\* The index navigateSearch moves to.
NewIndex(direction, index, length) ==
  IF direction = "next" THEN (index + 1) % length ELSE (index - 1 + length) % length

\* The node map of navigateSearch.
NavigateNode(n, matchedNodeId, matched) ==
  [n EXCEPT !.outline = IF n.id = matchedNodeId THEN "current"
                        ELSE IF InSeq(matched, n.id) THEN "match" ELSE "none"]

NavigateSearch(direction) ==
  /\ EffectsFlushed
  /\ IF Len(matchedNodes) = 0
     THEN UNCHANGED <<currentMatchIndex, nodes, virtTimer, centerTimers>>
     ELSE LET newIndex == NewIndex(direction, currentMatchIndex, Len(matchedNodes))
          IN /\ currentMatchIndex' = newIndex
             /\ nodes' = [k \in 1..Len(nodes) |->
                            NavigateNode(nodes[k], matchedNodes[newIndex + 1], matchedNodes)]
             /\ virtTimer' = TimerAfterRender(nodes)
             /\ centerTimers' = centerTimers \cup {matchedNodes[newIndex + 1]}
  /\ lastOp' = Op(direction, NullId)
  /\ snap' = <<>>
  /\ UNCHANGED <<editorVars, renderPending>>
  /\ UNCHANGED <<jsonCode, data, edges, collapsedNodes, nodeHierarchy, searchQuery, matchedNodes,
                 viewport>>

(***************************************************************************)
(* The 50 ms timeout of navigateSearch: reactFlowInstance.setCenter on the *)
(* node, at zoom 1.2.  setCenter puts the point (centerX, centerY) in the  *)
(* middle of the renderer, and the resulting onMove stores the viewport.   *)
(* The renderer's size comes from the page; the model fixes it.            *)
(***************************************************************************)
RendererWidth == 1000
RendererHeight == 600
CenterZoom == 12

\* The viewport that shows the flow point (centerX, centerY) in the middle.
CenteredViewport(centerX, centerY, zoom) ==
  [x |-> RendererWidth \div 2 - (centerX * zoom) \div 10,
   y |-> RendererHeight \div 2 - (centerY * zoom) \div 10,
   zoom |-> zoom]

\* node.position carries no width or height: (width || 150) / 2, (height || 40) / 2.
CenterOf(node) == [x |-> node.position.x + 75, y |-> node.position.y + 20]

CenterTimer(id) ==
  /\ id \in centerTimers
  /\ centerTimers' = centerTimers \ {id}
  /\ IF \E k \in 1..Len(nodes) : nodes[k].id = id
     THEN LET node == nodes[CHOOSE k \in 1..Len(nodes) : nodes[k].id = id]
          IN /\ viewport' = CenteredViewport(CenterOf(node).x, CenterOf(node).y, CenterZoom)
             /\ virtTimer' = TimerAfterRender(nodes)
     ELSE UNCHANGED <<viewport, virtTimer>>
  /\ lastOp' = Op("center", id)
  /\ snap' = <<>>
  /\ UNCHANGED <<editorVars, renderPending>>
  /\ UNCHANGED <<jsonCode, data, nodes, edges, collapsedNodes, nodeHierarchy, searchQuery,
                 matchedNodes, currentMatchIndex>>

(***************************************************************************)
(* onMove (pan or zoom by the user) and the virtualization effect.         *)
(***************************************************************************)
\* The viewports the user moves to: the initial one, one far down the third
\* rank, one zoomed out to the minimum.
Viewports ==
  {[x |-> 0, y |-> 0, zoom |-> 10],
   [x |-> 0, y |-> 0 - 5200, zoom |-> 10],
   [x |-> 0, y |-> 0, zoom |-> 1]}

OnMove(viewportData) ==
  /\ EffectsFlushed
  /\ viewport' = viewportData
  /\ virtTimer' = TimerAfterRender(nodes)
  /\ lastOp' = Op("move", NullId)
  /\ snap' = <<>>
  /\ UNCHANGED <<editorVars, renderPending>>
  /\ UNCHANGED <<jsonCode, data, nodes, edges, collapsedNodes, nodeHierarchy, searchQuery,
                 matchedNodes, currentMatchIndex, centerTimers>>

buffer == 800

\* The intersection test of node n with visibleRect.  visibleRect is
\*   x: -viewport.x / zoom - buffer,  width: width / zoom + 2 * buffer
\* (and the same for y); with the zoom in tenths both sides of each
\* comparison are multiplied by it, which keeps the arithmetic exact.
Intersects(n, vp) ==
  /\ (n.position.x + nodeWidth + buffer) * vp.zoom > (0 - vp.x) * 10
  /\ (n.position.x - buffer) * vp.zoom < (RendererWidth - vp.x) * 10
  /\ (n.position.y + nodeHeight + buffer) * vp.zoom > (0 - vp.y) * 10
  /\ (n.position.y - buffer) * vp.zoom < (RendererHeight - vp.y) * 10

\* 1. visibleIds: the root, and the nodes that are not logically hidden and
\*    intersect the rectangle (no node has the type 'node-warning').
DirectlyVisible(n, vp) ==
  \/ n.id = NodeId(0)
  \/ n.type = "node-warning"
  \/ (~n.collapsedHidden /\ Intersects(n, vp))

RECURSIVE NodeMap(_, _, _)
\* nodeMap, restricted to what the walk reads: id -> data.parentId for the
\* nodes lo..hi (the range is halved so that the evaluation stays shallow).
NodeMap(nds, lo, hi) ==
  IF lo > hi THEN <<>>
  ELSE IF lo = hi THEN nds[lo].id :> nds[lo].parentId
  ELSE LET mid == (lo + hi) \div 2
       IN NodeMap(nds, lo, mid) @@ NodeMap(nds, mid + 1, hi)

\* nodeMap.get(id).data.parentId, or null when there is no such node
ParentIdOf(nodeMap, id) == IF id \in DOMAIN nodeMap THEN nodeMap[id] ELSE NullId

RECURSIVE ProtectPath(_, _, _)
\* 2. The walk up from curr's parent: it stops at a parent already in finalVisible.
ProtectPath(nodeMap, pid, finalVisible) ==
  IF pid = NullId \/ pid \in finalVisible THEN finalVisible
  ELSE ProtectPath(nodeMap, ParentIdOf(nodeMap, pid), finalVisible \cup {pid})

RECURSIVE ProtectAll(_, _, _, _, _)
\* visibleIds.forEach, over ids[lo..hi] in node-list order (the range is
\* halved so that the evaluation stays shallow; the left half is walked first).
ProtectAll(nodeMap, ids, lo, hi, finalVisible) ==
  IF lo > hi THEN finalVisible
  ELSE IF lo = hi THEN ProtectPath(nodeMap, ParentIdOf(nodeMap, ids[lo]), finalVisible)
  ELSE LET mid == (lo + hi) \div 2
           left == ProtectAll(nodeMap, ids, lo, mid, finalVisible)
       IN IF left # {} THEN ProtectAll(nodeMap, ids, mid + 1, hi, left) ELSE left

\* 3. The node map.
\* (mutant) one flag for both mechanisms: the viewport decides alone and the
\* logical flag is dropped.
VirtualizedNodeSpatialOnly(node, finalVisible) ==
  [node EXCEPT !.hidden = node.id \notin finalVisible, !.collapsedHidden = FALSE]

VirtualizedNode(node, finalVisible) ==
  IF node.collapsedHidden THEN [node EXCEPT !.hidden = TRUE]
  ELSE [node EXCEPT !.hidden = node.id \notin finalVisible]

\* visibleIds, in node-list order.
VisibleIds(nds, vp) ==
  LET direct == SelectSeq(nds, LAMBDA n : DirectlyVisible(n, vp))
  IN [k \in 1..Len(direct) |-> direct[k].id]

\* The timeout fires.  setNodes installs a new array, so the effect runs again
\* and sets the next timeout.  The callback tests nothing but the renderer:
\* when it fires between the data effect and the render that follows, its
\* updater is queued behind the new node list and maps that list.
VirtualizationTimer ==
  /\ virtTimer
  /\ \E visibleIds \in {VisibleIds(nodes, viewport)} :
     \E nodeMap \in {NodeMap(nodes, 1, Len(nodes))} :
     \E finalVisible \in {ProtectAll(nodeMap, visibleIds, 1, Len(visibleIds),
                                     {visibleIds[k] : k \in 1..Len(visibleIds)})} :
        nodes' = [k \in 1..Len(nodes) |-> VirtualizedNode(nodes[k], finalVisible)]
  /\ virtTimer' = IF renderPending THEN FALSE ELSE TimerAfterRender(nodes)
  /\ lastOp' = Op("virtualize", NullId)
  /\ snap' = <<>>
  /\ UNCHANGED <<editorVars, renderPending>>
  /\ UNCHANGED <<jsonCode, data, edges, collapsedNodes, nodeHierarchy, searchQuery,
                 matchedNodes, currentMatchIndex, viewport, centerTimers>>

\* The queries typed into the search box.
Queries == {<<>>, <<" ">>, <<"R">>, <<GlyphExpanded>>}

Next ==
  \/ \E d \in InteractiveTexts : OnChange(d)
  \/ DataEffect
  \/ \E i \in 1..Len(nodes) : OnNodeClick(i)
  \/ \E q \in Queries : HandleSearch(q)

Spec == Init /\ [][Next]_vars

(***************************************************************************)
(* The tree builder alone: the component is mounted with any text of       *)
(* BuildTexts and the data effect parses it.                               *)
(***************************************************************************)
InitBuild == Mounted(BuildTexts)

NextBuild == DataEffect

SpecBuild == InitBuild /\ [][NextBuild]_vars

(***************************************************************************)
(* A graph of 100 nodes, the size from which the virtualization effect     *)
(* works: collapse, search, viewport moves and the debounce timer.         *)
(***************************************************************************)
ViewTexts == {Desc("named", 11)}

ViewQueries == {<<>>, <<"m">>, <<" ", "[">>}

InitView == Mounted(ViewTexts)

NextView ==
  \/ DataEffect
  \/ \E i \in 1..Len(nodes) : OnNodeClick(i)
  \/ \E q \in ViewQueries : HandleSearch(q)
  \/ \E v \in Viewports : OnMove(v)
  \/ VirtualizationTimer

SpecView == InitView /\ [][NextView]_vars

(***************************************************************************)
(* Navigation among the matches, with the timeout that centers the view,   *)
(* on the text {"a": {"B": {"c": true}}}.                                  *)
(***************************************************************************)
NavTexts == {Desc("named", 2)}

NavQueries == {<<>>, <<"R">>, <<"{">>}

InitNav == Mounted(NavTexts)

NextNav ==
  \/ DataEffect
  \/ \E i \in 1..Len(nodes) : OnNodeClick(i)
  \/ \E q \in NavQueries : HandleSearch(q)
  \/ \E dir \in {"next", "prev"} : NavigateSearch(dir)
  \/ \E id \in centerTimers : CenterTimer(id)

SpecNav == InitNav /\ [][NextNav]_vars

(***************************************************************************)
(* A graph that hit the node limit and carries the warning node, under     *)
(* viewport moves, the debounce timer and changes of the editor text.      *)
(***************************************************************************)
WarnTexts == {Desc("named", 8), Desc("invalid", 0), Desc("empty", 0)}

\* The initial viewport, one far down, and one far away from every box
\* (positions are never negative).
WarnViewports ==
  {[x |-> 0, y |-> 0, zoom |-> 10],
   [x |-> 0, y |-> 0 - 5200, zoom |-> 10],
   [x |-> 100000, y |-> 100000, zoom |-> 10]}

InitWarn == Mounted({Desc("named", 8)})

NextWarn ==
  \/ \E d \in WarnTexts : OnChange(d)
  \/ DataEffect
  \/ Render
  \/ \E v \in WarnViewports : OnMove(v)
  \/ VirtualizationTimer

SpecWarn == InitWarn /\ [][NextWarn]_vars

(***************************************************************************)
(* The editor text changes between a graph of 100 nodes and a small one,   *)
(* under collapse, viewport moves and the debounce timer.                  *)
(***************************************************************************)
ReparseTexts == {Desc("named", 11), Desc("named", 1)}

InitReparse == Mounted(ReparseTexts)

NextReparse ==
  \/ \E d \in ReparseTexts : OnChange(d)
  \/ DataEffect
  \/ Render
  \/ \E i \in 1..Len(nodes) : OnNodeClick(i)
  \/ \E v \in Viewports : OnMove(v)
  \/ VirtualizationTimer

SpecReparse == InitReparse /\ [][NextReparse]_vars

(***************************************************************************)
(* The editor pane: MonoEditor's debounced validation with its automatic   *)
(* repair, and Home's Refresh button.                                      *)
(***************************************************************************)
LargeFileLength == 100000

\* (mutant) the repaired text is adopted without parsing it.
ValidateAndFixJSONAdoptUnparsed(jsonString) ==
  IF IsBlankText(jsonString)
  THEN /\ isValid' = FALSE
       /\ validationMessage' = "Empty input"
       /\ UNCHANGED jsonCode
       /\ validateTimer' = FALSE
  ELSE IF ~ParseThrows(jsonString)
  THEN /\ isValid' = TRUE
       /\ validationMessage' = "Valid JSON (RFC 8259)"
       /\ UNCHANGED jsonCode
       /\ validateTimer' = FALSE
  ELSE \E fixed \in {FixedText(jsonString)} :
          /\ jsonCode' = fixed
          /\ isValid' = TRUE
          /\ validationMessage' = "Auto-fixed and validated"
          /\ validateTimer' = (fixed # jsonCode)

\* validateAndFixJSON(jsonString), called by the timeout of the validation
\* effect: onChange(fixed) is Home's setJsonCode, and the render with the new
\* value runs the effect again, which sets a new timeout.
ValidateAndFixJSON(jsonString) ==
  IF IsBlankText(jsonString)
  THEN /\ isValid' = FALSE
       /\ validationMessage' = "Empty input"
       /\ UNCHANGED jsonCode
       /\ validateTimer' = FALSE
  ELSE IF ~ParseThrows(jsonString)
  THEN /\ isValid' = TRUE
       /\ validationMessage' = "Valid JSON (RFC 8259)"
       /\ UNCHANGED jsonCode
       /\ validateTimer' = FALSE
  ELSE \E fixed \in {FixedText(jsonString)} :
          IF ~ParseThrows(fixed)
          THEN /\ jsonCode' = fixed
               /\ isValid' = TRUE
               /\ validationMessage' = "Auto-fixed and validated"
               /\ validateTimer' = TRUE
          ELSE /\ isValid' = FALSE
               /\ validationMessage' = "detailedError"
               /\ UNCHANGED jsonCode
               /\ validateTimer' = FALSE

\* The timeout of the validation effect fires, 500 ms after the last render
\* with a new value.  Every pending timeout of handleRefresh is older than the
\* render that set this one and is due after 100 ms, so it has fired before.
ValidationTimer ==
  /\ validateTimer
  /\ EffectsFlushed
  /\ refreshTimers = <<>>
  /\ IF TextLength(jsonCode) > LargeFileLength
     THEN /\ isValid' = ~ParseThrows(jsonCode)
          /\ validationMessage' = IF ParseThrows(jsonCode) THEN "Error"
                                  ELSE "Valid JSON (large file - auto-fix disabled)"
          /\ UNCHANGED jsonCode
          /\ validateTimer' = FALSE
     ELSE ValidateAndFixJSON(jsonCode)
  /\ lastOp' = Op("validate", NullId)
  /\ snap' = <<>>
  /\ UNCHANGED <<data, nodes, edges, collapsedNodes, nodeHierarchy, searchQuery,
                 matchedNodes, currentMatchIndex, viewport, virtTimer, centerTimers,
                 renderPending, refreshTimers>>

\* The number of Refresh clicks whose timeouts are pending together.
MaxRefresh == 1

\* handleRefresh: clearSearch, then a space is appended to the text, and a
\* timeout is set whose callback holds the text of this render.
HandleRefresh ==
  /\ EffectsFlushed
  /\ Len(refreshTimers) < MaxRefresh
  /\ searchQuery' = <<>>
  /\ matchedNodes' = <<>>
  /\ currentMatchIndex' = 0
  /\ nodes' = [k \in 1..Len(nodes) |-> ClearNode(nodes[k])]
  /\ jsonCode' = AppendSpace(jsonCode)
  /\ refreshTimers' = Append(refreshTimers, jsonCode)
  /\ validateTimer' = TRUE
  /\ virtTimer' = TimerAfterRender(nodes)
  /\ lastOp' = Op("refresh", NullId)
  /\ snap' = <<>>
  /\ UNCHANGED <<data, edges, collapsedNodes, nodeHierarchy, viewport, centerTimers,
                 renderPending, isValid, validationMessage>>

\* The timeout of the oldest pending handleRefresh fires:
\* setJsonCode(jsonCode.trim()) with the text its closure holds.
RefreshTimer ==
  /\ refreshTimers # <<>>
  /\ EffectsFlushed
  /\ jsonCode' = TrimText(Head(refreshTimers))
  /\ refreshTimers' = Tail(refreshTimers)
  /\ validateTimer' = (validateTimer \/ jsonCode' # jsonCode)
  /\ lastOp' = Op("refreshed", NullId)
  /\ snap' = <<>>
  /\ UNCHANGED <<data, nodes, edges, collapsedNodes, nodeHierarchy, searchQuery,
                 matchedNodes, currentMatchIndex, viewport, virtTimer, centerTimers,
                 renderPending, isValid, validationMessage>>

\* {a:1} and ['a',] are repaired, ['a' is not, [1] is valid.
UnquotedKey == <<"{", "a", ":", "1", "}">>
SingleQuotes == <<"[", "'", "a", "'", ",", "]">>
Unclosed == <<"[", "'", "a", "'">>
ValidArray == <<"[", "1", "]">>

\* The texts of the editor specification: the four above, the empty text, a
\* blank text, a text with white space in front, a text of exactly 100000
\* characters, and an invalid and a valid text of more than 100000.
EditTexts ==
  {Txt(UnquotedKey, 0), Txt(SingleQuotes, 0), Txt(Unclosed, 0), Txt(ValidArray, 0),
   Txt(<<>>, 0), Txt(<<>>, 2), Txt(<<" ">> \o ValidArray, 0),
   Txt(UnquotedKey, LargeFileLength - Len(UnquotedKey)),
   Txt(UnquotedKey, LargeFileLength), Txt(ValidArray, LargeFileLength)}

InitEdit == Mounted(EditTexts)

NextEdit ==
  \/ \E d \in EditTexts : OnChange(d)
  \/ DataEffect
  \/ ValidationTimer
  \/ HandleRefresh
  \/ RefreshTimer

SpecEdit == InitEdit /\ [][NextEdit]_vars

(***************************************************************************)
(* Properties.                                                             *)
(*                                                                         *)
(* The definitions below describe the input value and the displayed graph  *)
(* on their own terms (they do not use the operators of the handlers), so  *)
(* that each property compares what the code computes with what the        *)
(* statement asks for.                                                     *)
(***************************************************************************)
RECURSIVE SumRange(_, _, _)
\* The sum of q[lo..hi], by halves.
SumRange(q, lo, hi) ==
  IF lo > hi THEN 0
  ELSE IF lo = hi THEN q[lo]
  ELSE SumRange(q, lo, (lo + hi) \div 2) + SumRange(q, (lo + hi) \div 2 + 1, hi)

SumSeq(q) == SumRange(q, 1, Len(q))

\* The largest element of a sequence of naturals (0 for the empty one).
MaxSeq(q) ==
  CHOOSE m \in {0} \cup {q[i] : i \in 1..Len(q)} : \A i \in 1..Len(q) : q[i] <= m

RECURSIVE FlattenRange(_, _, _)
\* The concatenation of qq[lo..hi], by halves.
FlattenRange(qq, lo, hi) ==
  IF lo > hi THEN <<>>
  ELSE IF lo = hi THEN qq[lo]
  ELSE FlattenRange(qq, lo, (lo + hi) \div 2) \o FlattenRange(qq, (lo + hi) \div 2 + 1, hi)

Flatten(qq) == FlattenRange(qq, 1, Len(qq))

IsComposite(v) == v.t = "arr" \/ v.t = "obj"
Entries(v) == IF v.t = "arr" THEN v.items ELSE [i \in 1..Len(v.entries) |-> v.entries[i].v]

RECURSIVE CountValues(_)
\* The number of values (scalars and containers) of a JSON value.
CountValues(v) ==
  IF IsComposite(v)
  THEN 1 + SumSeq([i \in 1..Len(Entries(v)) |-> CountValues(Entries(v)[i])])
  ELSE 1

RECURSIVE DepthOf(_)
\* The nesting depth of the deepest value, the root being at depth 0.
DepthOf(v) ==
  IF IsComposite(v) /\ Len(Entries(v)) > 0
  THEN 1 + MaxSeq([i \in 1..Len(Entries(v)) |-> DepthOf(Entries(v)[i])])
  ELSE 0

RECURSIVE WidthOf(_)
\* The largest number of entries of a container.
WidthOf(v) ==
  IF IsComposite(v)
  THEN LET w == MaxSeq([i \in 1..Len(Entries(v)) |-> WidthOf(Entries(v)[i])])
       IN IF Len(Entries(v)) > w THEN Len(Entries(v)) ELSE w
  ELSE 0

RECURSIVE Preorder(_)
\* For each value in pre-order: is it a container?
Preorder(v) ==
  IF IsComposite(v)
  THEN <<TRUE>> \o Flatten([i \in 1..Len(Entries(v)) |-> Preorder(Entries(v)[i])])
  ELSE <<FALSE>>

\* The value the displayed graph was built from, after a successful parse.
Parsed == lastOp.op = "parse"
Input == ParsedValue(data)

NodeIds == {nodes[k].id : k \in 1..Len(nodes)}
EdgePairs == {<<edges[k].source, edges[k].target>> : k \in 1..Len(edges)}

\* The input hits none of the caps.
UnderCaps(v) ==
  /\ CountValues(v) < MAX_NODES
  /\ DepthOf(v) <= MAX_DEPTH
  /\ WidthOf(v) <= MAX_ARRAY_ITEMS

\* C1: for every JSON value that hits none of the caps (fewer than 3000 values,
\* depth at most 10, no container of more than 50 entries) the graph has one
\* node per value, scalar or container, in pre-order, one edge per
\* parent-child relationship (each node but the root is the target of exactly
\* one edge, from an existing node), and one more node than edges.
C1_TreeProperty ==
  (Parsed /\ UnderCaps(Input)) =>
     /\ [k \in 1..Len(nodes) |-> nodes[k].isObject] = Preorder(Input)
     /\ Len(nodes) = CountValues(Input)
     /\ Cardinality(NodeIds) = Len(nodes)
     /\ Len(edges) = CountValues(Input) - 1
     /\ Len(nodes) = Len(edges) + 1
     /\ Cardinality(EdgePairs) = Len(edges)
     /\ {p[2] : p \in EdgePairs} = NodeIds \ {nodes[1].id}
     /\ Cardinality({p[2] : p \in EdgePairs}) = Len(edges)
     /\ {p[1] : p \in EdgePairs} \subseteq {nodes[k].id : k \in {j \in 1..Len(nodes) : nodes[j].isObject}}

\* A graph built from a value one node short of the node cap, with containers
\* at several depths.
C1_Witness == Parsed /\ UnderCaps(Input) /\ Len(nodes) = MAX_NODES - 1 /\ DepthOf(Input) = 4

(***************************************************************************)
(* Collapse state.                                                         *)
(***************************************************************************)
\* The children of id, read off the adjacency map.
ChildSet(id) ==
  IF id \in DOMAIN nodeHierarchy.kids
  THEN {nodeHierarchy.kids[id][j] : j \in 1..Len(nodeHierarchy.kids[id])}
  ELSE {}

RECURSIVE DescendantSet(_)
\* The proper descendants of id in the adjacency map.
DescendantSet(id) == ChildSet(id) \cup UNION {DescendantSet(c) : c \in ChildSet(id)}

\* Some ancestor of id is in CollapsedSet.
HasCollapsedAncestor(id) == \E c \in collapsedNodes : id \in DescendantSet(c)

Highlighted(n) ==
  \/ n.outline \in {"match", "current", "jump"}
  \/ n.className \in {"node-object node-search-match", "node-primitive node-search-match"}

\* C2: collapsing X and then expanding X, with nothing in between, restores the
\* hidden state of every descendant of X to what it was just before the
\* collapse, also when descendants of X are themselves collapsed.
C2_RoundTrip ==
  lastOp.op = "reExpand" =>
     \A k \in 1..Len(nodes) :
        nodes[k].id \in DescendantSet(lastOp.id) => nodes[k].hidden = snap[k]

\* C3: in every reachable state a node is logically hidden (collapsedHidden)
\* if and only if one of its ancestors is in CollapsedSet.
C3_LogicallyHiddenIffCollapsedAncestor ==
  \A k \in 1..Len(nodes) :
     nodes[k].collapsedHidden <=> HasCollapsedAncestor(nodes[k].id)

\* C4: after every successful parse CollapsedSet is empty, MatchList is empty
\* and no node is highlighted, and the nodes and edges are those of a fresh
\* build (nothing hidden).
C4_ParseClearsDerivedState ==
  Parsed =>
     /\ collapsedNodes = {}
     /\ matchedNodes = <<>>
     /\ \A k \in 1..Len(nodes) :
           ~Highlighted(nodes[k]) /\ ~nodes[k].hidden /\ ~nodes[k].collapsedHidden
     /\ \A k \in 1..Len(edges) : ~edges[k].hidden

\* The step in which processGraph runs on a text that does not parse.
ParseFailStep == data # jsonCode /\ data' = jsonCode /\ ParseThrows(jsonCode)

\* C5: when the text is not valid JSON, the nodes, the edges and the adjacency
\* map after processGraph are exactly those displayed before it.
C5_FailedParseKeepsGraph ==
  [][ParseFailStep => nodes' = nodes /\ edges' = edges /\ nodeHierarchy' = nodeHierarchy]_vars

\* A failed parse while a graph with a collapsed, partly hidden subtree and a
\* hidden edge is displayed.
C5_Witness ==
  /\ lastOp.op = "parseFail"
  /\ \E k \in 1..Len(nodes) : nodes[k].hidden
  /\ \E k \in 1..Len(edges) : edges[k].hidden
  /\ collapsedNodes # {}

(***************************************************************************)
(* Truncation.                                                             *)
(***************************************************************************)
Shown(v) == IF Len(Entries(v)) > MAX_ARRAY_ITEMS THEN MAX_ARRAY_ITEMS ELSE Len(Entries(v))

RECURSIVE NeededNodes(_, _)
\* The nodes a traversal of v (at the given depth) asks for when only the
\* depth cap and the per-container cap apply: one per visited value, one per
\* container of more than 50 entries.
NeededNodes(v, depth) ==
  IF IsComposite(v) /\ depth < MAX_DEPTH
  THEN 1 + SumSeq([i \in 1..Shown(v) |-> NeededNodes(Entries(v)[i], depth + 1)])
         + (IF Len(Entries(v)) > Shown(v) THEN 1 ELSE 0)
  ELSE 1

\* The traversal of v exceeds MAX_NODES.
ExceedsMaxNodes(v) == NeededNodes(v, 0) > MAX_NODES

RECURSIVE DepthPruned(_, _)
\* v (at the given depth) holds a non-empty container at depth MAX_DEPTH: its
\* children are pruned.
DepthPruned(v, depth) ==
  /\ IsComposite(v)
  /\ IF depth >= MAX_DEPTH THEN Len(Entries(v)) > 0
     ELSE \E i \in 1..Len(Entries(v)) : DepthPruned(Entries(v)[i], depth + 1)

WarningCount == Cardinality({k \in 1..Len(nodes) : nodes[k].id = "node-warning"})

OneWarningInFront == WarningCount = 1 /\ nodes[1].id = "node-warning"

\* C6: for every input whose traversal exceeds MAX_NODES the node list holds
\* exactly one warning node, at the front.
C6_OneWarningWhenExceeded == (Parsed /\ ExceedsMaxNodes(Input)) => OneWarningInFront

\* C7: processGraph never creates more than MAX_NODES nodes, the warning node
\* not counted.
C7_NodeCapIsGlobal ==
  Parsed => Cardinality({k \in 1..Len(nodes) : nodes[k].id # "node-warning"}) <= MAX_NODES

\* C8: when the children of a non-empty container at depth 10 are pruned, the
\* result holds the single warning node.
C8_DepthLimitWarns == (Parsed /\ DepthPruned(Input, 0)) => OneWarningInFront

\* Neither the node cap nor the depth cap is hit.
NoCapHit(v) == ~ExceedsMaxNodes(v) /\ ~DepthPruned(v, 0)

NodeWithId(id) == nodes[CHOOSE k \in 1..Len(nodes) : nodes[k].id = id]
PositionOf(id) == CHOOSE k \in 1..Len(nodes) : nodes[k].id = id

\* The label without a leading indicator glyph and the space after it.
Undecorated(label) ==
  IF Len(label) >= 2 /\ label[1] \in {"▼", "▶"} /\ label[2] = " "
  THEN SubSeq(label, 3, Len(label)) ELSE label

StartsWith(text, prefix) ==
  Len(text) >= Len(prefix) /\ SubSeq(text, 1, Len(prefix)) = prefix

\* The label a child of container v must start with: its key (index in
\* brackets for an array), then ':' for a scalar or ' ' for a container.
ChildPrefix(v, j) ==
  (IF v.t = "arr" THEN <<"[">> \o IntToStr(j - 1) \o <<"]">> ELSE v.entries[j].k)
    \o (IF IsComposite(Entries(v)[j]) THEN <<" ">> ELSE <<":">>)

\* The label of the synthetic node of container v.
MoreText(v) ==
  <<".", ".", ".", " ">> \o IntToStr(Len(Entries(v)) - MAX_ARRAY_ITEMS)
    \o (IF v.t = "arr" THEN <<" ", "m", "o", "r", "e", " ", "i", "t", "e", "m", "s">>
        ELSE <<" ", "m", "o", "r", "e", " ", "p", "r", "o", "p", "e", "r", "t", "i", "e", "s">>)

RECURSIVE ShapeOk(_, _, _)
\* The node id stands for the value v: its children in the adjacency map are
\* the first 50 entries of v, in entry order, each with an edge from id; a
\* container of more than 50 entries has one more edge, to a childless node
\* labelled with the remaining count; any other value has no further edge.
ShapeOk(v, id, pairs) ==
  LET n == IF IsComposite(v) THEN Len(Entries(v)) ELSE 0
      kids == IF id \in DOMAIN nodeHierarchy.kids THEN nodeHierarchy.kids[id] ELSE <<>>
      kidSet == {kids[j] : j \in 1..Len(kids)}
      out == {p[2] : p \in {q \in pairs : q[1] = id}}
      extra == out \ kidSet
  IN /\ Len(kids) = (IF n > MAX_ARRAY_ITEMS THEN MAX_ARRAY_ITEMS ELSE n)
     /\ Cardinality(kidSet) = Len(kids)
     /\ kidSet \subseteq out
     /\ \A j \in 1..Len(kids) :
           /\ StartsWith(Undecorated(NodeWithId(kids[j]).label), ChildPrefix(v, j))
           /\ j > 1 => PositionOf(kids[j - 1]) < PositionOf(kids[j])
           /\ ShapeOk(Entries(v)[j], kids[j], pairs)
     /\ IF n > MAX_ARRAY_ITEMS
        THEN /\ Cardinality(extra) = 1
             /\ \A m \in extra :
                   /\ NodeWithId(m).label = MoreText(v)
                   /\ \A j \in 1..Len(kids) : PositionOf(kids[j]) < PositionOf(m)
                   /\ {q \in pairs : q[1] = m} = {}
        ELSE extra = {}

\* C9: when no node or depth cap is hit, every container of n > 50 entries has
\* exactly 50 child value nodes, in entry order, plus exactly one synthetic
\* node labelled with the remaining count n - 50 and one edge to it; a
\* container of at most 50 entries has no such node, and an empty container
\* has no children at all.
C9_PerContainerTruncation ==
  (Parsed /\ NoCapHit(Input)) =>
     /\ Cardinality(EdgePairs) = Len(edges)
     /\ ShapeOk(Input, nodes[1].id, EdgePairs)
     /\ Len(nodes) = NeededNodes(Input, 0)

\* The example of the specification: an array of 60 items gives 52 nodes.
C9_Witness ==
  /\ Parsed /\ NoCapHit(Input)
  /\ Input.t = "arr" /\ Len(Input.items) = 60
  /\ Len(nodes) = 52
  /\ nodes[52].label = <<".", ".", ".", " ", "1", "0", " ", "m", "o", "r", "e", " ", "i", "t", "e", "m", "s">>

(***************************************************************************)
(* Search.                                                                 *)
(***************************************************************************)
SameLetter(a, b) ==
  a = b \/ \E i \in 1..26 : {a, b} = {UpperChars[i], LowerChars[i]}

\* text contains query as a case-insensitive substring.
ContainsIgnoringCase(text, query) ==
  \E off \in 0..(Len(text) - Len(query)) :
     \A j \in 1..Len(query) : SameLetter(text[off + j], query[j])

\* MatchList is exactly the ids of the nodes whose undecorated label contains
\* the query, in node-list order, no id repeated.
MatchListIsTheMatches ==
  /\ \A j \in 1..Len(matchedNodes) :
        \E k \in 1..Len(nodes) :
           /\ nodes[k].id = matchedNodes[j]
           /\ ContainsIgnoringCase(Undecorated(nodes[k].label), searchQuery)
  /\ \A k \in 1..Len(nodes) :
        ContainsIgnoringCase(Undecorated(nodes[k].label), searchQuery)
           => \E j \in 1..Len(matchedNodes) : matchedNodes[j] = nodes[k].id
  /\ \A j1, j2 \in 1..Len(matchedNodes) :
        j1 < j2 => PositionOf(matchedNodes[j1]) < PositionOf(matchedNodes[j2])

\* handleSearch ran last.
Searched == lastOp.op \in {"search", "clear"}

OnlyWhitespace(query) == \A i \in 1..Len(query) : query[i] \in {" ", "\t", "\n"}

\* C10 as stated: after handleSearch with any non-empty query, MatchList is
\* exactly the matching ids.
C10_AsStated == (Searched /\ searchQuery # <<>>) => MatchListIsTheMatches

\* C10: after handleSearch with a query that has a non-whitespace character,
\* MatchList is exactly the ids of the nodes whose label, leading glyph
\* stripped, contains the query as a case-insensitive substring, in node-list
\* order, no id repeated.
C10_MatchList == (Searched /\ ~OnlyWhitespace(searchQuery)) => MatchListIsTheMatches

\* A search with an upper-case query that matches two nodes, one of them a
\* container collapsed before the search.
C10_Witness ==
  /\ Searched /\ ~OnlyWhitespace(searchQuery)
  /\ Len(matchedNodes) = 2
  /\ \E k \in 1..Len(nodes) :
        /\ nodes[k].id = matchedNodes[1]
        /\ nodes[k].label[1] = "▶"
        /\ nodes[k].label # ToLowerCase(nodes[k].label)

\* The sources of the edges that lead to id.
EdgeParents(id) == {edges[k].source : k \in {j \in 1..Len(edges) : edges[j].target = id}}

RECURSIVE EdgeAncestors(_)
\* The ancestors of id in the displayed graph: every node from which an edge
\* path leads to id.
EdgeAncestors(id) == EdgeParents(id) \cup UNION {EdgeAncestors(p) : p \in EdgeParents(id)}

\* handleSearch ran last, on a query that is not blank.
SearchStep == lastOp.op = "search"

\* C11: after handleSearch with a non-empty query, no ancestor of a matched
\* node is left in CollapsedSet and no matched node is logically hidden.
C11_MatchesAreRevealed ==
  SearchStep =>
     \A j \in 1..Len(matchedNodes) :
        /\ EdgeAncestors(matchedNodes[j]) \cap collapsedNodes = {}
        /\ \A k \in 1..Len(nodes) :
              nodes[k].id = matchedNodes[j] => ~nodes[k].collapsedHidden

\* The same for the matched nodes that the adjacency map lists (the nodes of
\* JSON values): it separates them from the synthetic "more" nodes.
C11_ListedMatchesAreRevealed ==
  SearchStep =>
     \A j \in 1..Len(matchedNodes) :
        (\E c \in DOMAIN nodeHierarchy.kids : matchedNodes[j] \in ChildSet(c))
          => /\ EdgeAncestors(matchedNodes[j]) \cap collapsedNodes = {}
             /\ \A k \in 1..Len(nodes) :
                   nodes[k].id = matchedNodes[j] => ~nodes[k].collapsedHidden

\* C12: after handleSearch with a non-empty query, matching or not, every
\* node is logically hidden exactly when it is a descendant of an id that is
\* in CollapsedSet after the search.
C12_SearchRecomputesLogicalHiding ==
  SearchStep =>
     \A k \in 1..Len(nodes) :
        nodes[k].collapsedHidden <=> HasCollapsedAncestor(nodes[k].id)

\* The step in which handleSearch runs on an empty or whitespace-only query.
ClearStep == lastOp'.op = "clear" /\ jsonCode' = jsonCode /\ searchQuery' \in {<<>>, <<" ">>}

\* C13: clearing the query removes the match highlighting from every node,
\* empties MatchList, puts the index back to its initial value and leaves
\* CollapsedSet as it was (what a search auto-expanded stays expanded).
C13_ClearKeepsCollapsedSet ==
  [][ClearStep =>
       /\ \A k \in 1..Len(nodes') : ~Highlighted(nodes'[k])
       /\ matchedNodes' = <<>>
       /\ currentMatchIndex' = 0
       /\ collapsedNodes' = collapsedNodes]_vars

\* The query was cleared after a search that auto-expanded a collapsed
\* container: its label still shows the collapsed glyph, CollapsedSet no longer
\* holds it, and another container is still collapsed.
C13_Witness ==
  /\ lastOp.op = "clear"
  /\ \E k \in 1..Len(nodes) :
        /\ nodes[k].label[1] = GlyphCollapsed
        /\ nodes[k].id \notin collapsedNodes
  /\ \A k \in 1..Len(nodes) : ~Highlighted(nodes[k])

\* C14: navigateSearch cycles with wraparound. With L > 0 matches and index
\* i, 'next' sets the index to (i + 1) mod L and 'prev' to (i - 1 + L) mod L;
\* with no match it changes neither the index, nor the nodes, nor the
\* viewport, and it schedules no centering.
C14_NavigateWraps ==
  [][lastOp'.op \in {"next", "prev"} =>
       IF Len(matchedNodes) = 0
       THEN /\ currentMatchIndex' = currentMatchIndex
            /\ nodes' = nodes
            /\ viewport' = viewport
            /\ centerTimers' = centerTimers
       ELSE currentMatchIndex' =
              IF lastOp'.op = "next"
              THEN (currentMatchIndex + 1) % Len(matchedNodes)
              ELSE (currentMatchIndex - 1 + Len(matchedNodes)) % Len(matchedNodes)]_vars

\* 'next' was pressed with three matches and arrived at index 0, which it
\* reaches from index 2 only; the first match carries the current outline.
C14_Witness ==
  /\ lastOp.op = "next"
  /\ Len(matchedNodes) = 3
  /\ currentMatchIndex = 0
  /\ \E k \in 1..Len(nodes) :
        nodes[k].id = matchedNodes[1] /\ nodes[k].outline = "current"

\* The node with this id is not rendered (hidden by collapse or by the viewport).
NodeHidden(id) == \E k \in 1..Len(nodes) : nodes[k].id = id /\ nodes[k].hidden

\* C15: in every reachable state an edge is hidden if and only if its source
\* node or its target node is hidden.
C15_EdgeHiddenIffEndpointHidden ==
  \A e \in 1..Len(edges) :
    edges[e].hidden <=> (NodeHidden(edges[e].source) \/ NodeHidden(edges[e].target))

\* C16: the current match index is -1 whenever MatchList is empty.
C16_IndexOfEmptyMatchList == Len(matchedNodes) = 0 => currentMatchIndex = -1

\* The ids of a list, as a set.
IdsOf(list) == {list[j] : j \in 1..Len(list)}

\* C17: for every node X of the graph, getAllDescendants(X) terminates and
\* returns every proper descendant of X in the adjacency map exactly once,
\* never X itself and never a node outside the subtree of X.
C17_GetAllDescendants ==
  \A k \in 1..Len(nodes) :
    LET list == getAllDescendants(nodeHierarchy, nodes[k].id)
    IN /\ IdsOf(list) = DescendantSet(nodes[k].id)
       /\ Cardinality(IdsOf(list)) = Len(list)
       /\ nodes[k].id \notin IdsOf(list)

\* A container with grandchildren was just collapsed, and the collection
\* hid its whole subtree.
C17_Witness ==
  /\ lastOp.op = "collapse"
  /\ \E c \in ChildSet(lastOp.id) : ChildSet(c) # {}
  /\ \A k \in 1..Len(nodes) :
        nodes[k].id \in DescendantSet(lastOp.id) => nodes[k].collapsedHidden

\* C18: after an expanded container X was collapsed, every node reachable
\* from X by following edges (a synthetic "more" node included) is hidden by
\* collapse, and so is every edge leading to such a node.
C18_CollapseHidesSubtree ==
  lastOp.op = "collapse" =>
    /\ \A k \in 1..Len(nodes) :
          lastOp.id \in EdgeAncestors(nodes[k].id) =>
            nodes[k].hidden /\ nodes[k].collapsedHidden
    /\ \A e \in 1..Len(edges) :
          lastOp.id \in EdgeAncestors(edges[e].target) => edges[e].hidden

\* The step in which the debounced viewport recomputation runs.
VirtualizeStep == lastOp'.op = "virtualize"

\* C19: in every reachable state every logically hidden node (collapsedHidden)
\* is hidden, and a viewport recomputation never un-hides such a node and
\* changes neither CollapsedSet nor any collapsedHidden flag.
C19_CollapsedStaysHidden ==
  /\ [](\A k \in 1..Len(nodes) : nodes[k].collapsedHidden => nodes[k].hidden)
  /\ [][VirtualizeStep =>
          /\ collapsedNodes' = collapsedNodes
          /\ Len(nodes') = Len(nodes)
          /\ \A k \in 1..Len(nodes) :
                /\ nodes'[k].collapsedHidden = nodes[k].collapsedHidden
                /\ nodes[k].collapsedHidden => nodes'[k].hidden]_vars

\* The viewport recomputation ran while a logically hidden node lay inside
\* the viewport and an expanded node lay outside it: the first stayed hidden,
\* the second was hidden by the viewport alone.
C19_Witness ==
  /\ lastOp.op = "virtualize"
  /\ \E k \in 1..Len(nodes) :
        nodes[k].collapsedHidden /\ nodes[k].hidden /\ Intersects(nodes[k], viewport)
  /\ \E k \in 1..Len(nodes) : ~nodes[k].collapsedHidden /\ nodes[k].hidden

\* C20: ancestor protection. After every viewport recomputation on a graph
\* where virtualization applies, every ancestor (up to the root) of every
\* node left visible is visible too.
C20_AncestorProtection ==
  (lastOp.op = "virtualize" /\ Len(nodes) >= VirtualizationMinNodes) =>
    \A k \in 1..Len(nodes) :
      ~nodes[k].hidden => \A a \in EdgeAncestors(nodes[k].id) : ~NodeHidden(a)

\* C21: the global warning node, when present, is never hidden, whatever the
\* viewport and the position of the warning node.
C21_WarningNodeVisible ==
  \A k \in 1..Len(nodes) : nodes[k].id = WarningId => ~nodes[k].hidden

\* C22: the viewport recomputation is coalesced. Once it has run and no user
\* action has followed, no recomputation timer is pending (it runs at most
\* once per period of inactivity).
C22_RecomputationRunsOnce == lastOp.op = "virtualize" => ~virtTimer

\* The node is a container that has children in the adjacency map.
IsParent(n) == n.isObject /\ n.hasChildren /\ ChildSet(n.id) # {}

\* C23: in every reachable state a container with children shows the
\* collapsed glyph if it is in CollapsedSet and the expanded glyph otherwise.
C23_GlyphTracksCollapse ==
  \A k \in 1..Len(nodes) :
    IsParent(nodes[k]) =>
      nodes[k].label[1] = IF nodes[k].id \in collapsedNodes THEN GlyphCollapsed
                          ELSE GlyphExpanded

\* C24: whenever MatchList is non-empty the node at the current index carries
\* the current-match highlight and every other matched node the ordinary
\* match highlight.
C24_CurrentMatchHighlight ==
  Len(matchedNodes) > 0 =>
    /\ currentMatchIndex \in 0..(Len(matchedNodes) - 1)
    /\ \A k \in 1..Len(nodes) :
          InSeq(matchedNodes, nodes[k].id) =>
            nodes[k].outline = IF nodes[k].id = matchedNodes[currentMatchIndex + 1]
                               THEN "current" ELSE "match"

\* The parent-child pairs of the adjacency map, and those of data.parentId.
AdjacencyPairs ==
  UNION {{<<p, nodeHierarchy.kids[p][j]>> : j \in 1..Len(nodeHierarchy.kids[p])} :
           p \in DOMAIN nodeHierarchy.kids}
ParentIdPairs ==
  {<<nodes[k].parentId, nodes[k].id>> : k \in {j \in 1..Len(nodes) : nodes[j].parentId # NullId}}

\* C26: the three parent-child representations built by a parse agree: the
\* edges, the adjacency map and data.parentId hold the same pairs, every id
\* of the map is a node id, and every node but the root and the warning node
\* has exactly one parent.
C26_RepresentationsAgree ==
  Parsed =>
    /\ EdgePairs = AdjacencyPairs
    /\ EdgePairs = ParentIdPairs
    /\ \A pair \in AdjacencyPairs : pair[1] \in NodeIds /\ pair[2] \in NodeIds
    /\ {pair[2] : pair \in EdgePairs} = NodeIds \ {NodeId(0), WarningId}
    /\ Cardinality(EdgePairs) = Cardinality({pair[2] : pair \in EdgePairs})

\* C27: logical hiding is downward closed. If a node is logically hidden,
\* all of its descendants in the adjacency map are logically hidden.
C27_LogicalHidingDownwardClosed ==
  \A k \in 1..Len(nodes) :
    nodes[k].collapsedHidden =>
      \A j \in 1..Len(nodes) :
        nodes[j].id \in DescendantSet(nodes[k].id) => nodes[j].collapsedHidden

\* Two containers are in CollapsedSet, and a logically hidden node has a
\* logically hidden child.
C27_Witness ==
  /\ Cardinality(collapsedNodes) >= 2
  /\ \E k \in 1..Len(nodes) :
        /\ nodes[k].collapsedHidden
        /\ \E j \in 1..Len(nodes) :
              nodes[j].id \in ChildSet(nodes[k].id) /\ nodes[j].collapsedHidden

\* The node carries search-match highlighting: the match class, or the
\* outline of a match or of the current match.
SearchHighlighted(n) ==
  \/ n.outline \in {"match", "current"}
  \/ n.className \in {"node-object node-search-match", "node-primitive node-search-match"}

\* C28: in every reachable state a node carries search-match highlighting if
\* and only if its id is in MatchList.
C28_HighlightIffMatched ==
  \A k \in 1..Len(nodes) : SearchHighlighted(nodes[k]) <=> InSeq(matchedNodes, nodes[k].id)

\* C29: virtualization applies only to graphs of at least 100 nodes. While
\* the node list has fewer than 100 nodes, a node is hidden only by collapse
\* (the viewport hides none), also when a recomputation timer was pending for
\* a larger graph at the moment of the re-parse.
C29_SmallGraphNotVirtualized ==
  Len(nodes) < VirtualizationMinNodes =>
    \A k \in 1..Len(nodes) : nodes[k].hidden => nodes[k].collapsedHidden

(***************************************************************************)
(* The editor pane.                                                        *)
(***************************************************************************)
\* A step of the validation timeout: every such step follows a step of
\* another handler, because validation runs once per rendered value.
ValidateStep == lastOp.op # "validate" /\ lastOp'.op = "validate"

\* The characters of a text parse as JSON (the spaces at its end are white
\* space).
Parses(d) == JsonParse(d.s).ok

\* The text after the three replacements of the repair.
Repaired(d) == [d EXCEPT !.s = FixJson(d.s)]

\* C25: automatic repair is speculative. A validation changes the editor text
\* only to the repaired text, only when that text parses, and marks it valid;
\* when the text does not parse and its repair does not parse either, or the
\* text is longer than 100000 characters, the text stays as it is and is
\* marked invalid; a text that parses (an adopted repair among them) is
\* validated without any change.
C25_RepairIsSpeculative ==
  [][ValidateStep =>
       /\ jsonCode' # jsonCode =>
             jsonCode' = Repaired(jsonCode) /\ Parses(jsonCode') /\ isValid'
       /\ (~Parses(jsonCode)
             /\ (~Parses(Repaired(jsonCode)) \/ Len(jsonCode.s) + jsonCode.pad > 100000)) =>
             jsonCode' = jsonCode /\ ~isValid'
       /\ Parses(jsonCode) => jsonCode' = jsonCode /\ isValid']_vars

\* A repair was just adopted: the editor holds the repaired text, which the
\* graph has not been given yet.
C25_Witness ==
  /\ lastOp.op = "validate"
  /\ validationMessage = "Auto-fixed and validated"
  /\ isValid
  /\ data # jsonCode
  /\ Parses(jsonCode) /\ ~Parses(data)

\* The second step of a refresh: the timeout of handleRefresh fires.
RefreshedStep == refreshTimers # <<>> /\ refreshTimers' = Tail(refreshTimers)

\* C30: refresh does not lose edits. The second step of a refresh leaves the
\* text the editor holds at that moment (the user's latest text if there was
\* an edit since the click), up to the white space around it.
C30_RefreshKeepsLatestText ==
  [][RefreshedStep => Trim(jsonCode'.s) = Trim(jsonCode.s)]_vars

====
